---- MODULE Spec2Model ----
(***************************************************************************)
(* ArchDrop transfer subsystem: the session flags of                       *)
(* src/server/session.rs, the authorisation helpers of src/server/auth.rs  *)
(* and the send / receive request handlers of src/transfer/*_handlers.rs.  *)
(*                                                                         *)
(* The session under src/ is the "pair of atomics" variant: SessionCore    *)
(* keeps `active` and `completed` AtomicBools and its claim / is_active /  *)
(* complete take the token only.  The handlers pass a client id to the     *)
(* helpers of auth.rs; SessionCore has no field that could hold it, so the *)
(* client id of a request never influences the session operations.         *)
(*                                                                         *)
(* The chunk storage is src/transfer/storage.rs (an in-memory variant for  *)
(* files below MEMORY_THRESHOLD, a direct-write variant with a             *)
(* PartialFileGuard above it); the shutdown coordinator is run_session /   *)
(* shutdown / wait_for_transfers of src/server/modes.rs, the module that   *)
(* src/server/mod.rs declares.                                             *)
(***************************************************************************)
EXTENDS Integers, FiniteSets, Sequences, TLC

\* ---------------------------------------------------------------- bounds
NumClients == 2
NumFiles == 1
MaxChunkIndex == 1
MaxProcessed == 2
MaxInterrupts == 2

\* ------------------------------------------------------ program constants
CHUNK_SIZE == 1048576
MEMORY_THRESHOLD == 104857600

\* ------------------------------------------------------------ input sets
Clients == 1..NumClients
NoClient == 0

\* the token minted by SessionCore::new and a token that differs from it
TOKEN == "uuid-v4"
WrongToken == "wrong-token"
Tokens == {TOKEN, WrongToken}

FileSizes == {0, 1, CHUNK_SIZE + 1}
FileIndexes == 0..NumFiles
ChunkIndexes == 0..MaxChunkIndex

\* relative paths as sequences of path components
RelPaths == { <<"a.bin">>, <<"..", "x">> }
NoPath == <<>>

ManifestInputs == UNION { [1..n -> FileSizes] : n \in 0..NumFiles }

NoEntry == [kind |-> "None"]
\* no ChunkSendSession of a file index in AppState.send_sessions
NoSend == [total_chunks |-> -1]

VARIABLES
    mode,             \* Session::Send or Session::Receive
    active,           \* SessionCore.active
    completed,        \* SessionCore.completed
    manifest,         \* SendSession.manifest: the sizes of its files
    total_chunks,     \* session-wide chunk total
    chunks_processed, \* session-wide count of chunks served / stored
    progress,         \* last value sent on progress_sender, <<num, den>> = num/den*100
    receive_sessions, \* AppState.receive_sessions: file id -> FileReceiveState
    send_sessions,    \* AppState.send_sessions: file index -> ChunkSendSession
    arrived,          \* history: per file index, the chunk indices process_chunk was called with
    files,            \* destination files that exist on disk
    pendingDelete,    \* paths a PartialFileGuard cleanup thread will still remove
    disk,             \* per path: the chunks (by index) written to the destination file, in file order
    main_pc,          \* run_session / shutdown: where the coordinator task stands
    listener,         \* the Ctrl+C task: "listening" or "aborted"
    shutdown_init,    \* run_session's AtomicBool, passed to shutdown() as force_exit
    signal_sent,      \* a message waits in the broadcast channel shutdown_tx / shutdown_rx
    exited,           \* the process has ended
    interrupts,       \* history: number of interrupts delivered to the process
    server_mode,      \* ServerMode: "local" (start_https) or "tunnel" (start_tunnel)
    start_pc,         \* start_https / start_tunnel: where the start-up stands
    elapsed,          \* wait_for_server_ready: milliseconds since `start`
    server_up,        \* the spawned axum server accepts connections
    probed,           \* history: a GET /health of the readiness probe was answered 2xx
    url_shown,        \* the transfer URL has been composed and printed
    tunnel_launched,  \* history: the cloudflared process has been spawned
    process,          \* CloudflareTunnel.process, the cloudflared child: "none", "running" or "killed"
    call,             \* a direct call of a library function: its arguments and results
    worker,           \* per runtime worker thread: the upload task it polls, or Idle
    task,             \* per chunk upload: where its receive_handler future stands
    shard,            \* the DashMap shard lock of the file's entry: its holder, or Idle
    sessions,         \* SessionStore.sessions: one-time token -> SessionData
    clock,            \* Instant::now(), in seconds since the store was made
    mutex,            \* the tokio Mutex around SessionStore.sessions: its holder, or NoClient
    caller,           \* per client: where its validate_and_mark_used call stands
    granted,          \* history: per one-time token, how many calls returned its file path
    refused,          \* history: the one-time tokens for which a call returned None
    pc,               \* per client: "idle", or the token of its in-flight Session::claim call
    claimer,          \* history: the client whose claim call performed the winning compare_exchange
    winners,          \* history: the clients that got `true` from a claim call
    last              \* history: the most recent call or request and its outcome

vars == <<mode, active, completed, manifest, total_chunks, chunks_processed,
          progress, receive_sessions, send_sessions, arrived, files, pendingDelete, disk, main_pc,
          listener, shutdown_init, signal_sent, exited, interrupts, server_mode, start_pc,
          elapsed, server_up, probed, url_shown, tunnel_launched, process, call,
          worker, task, shard, sessions, clock, mutex, caller, granted, refused,
          pc, claimer, winners, last>>

\* what the handlers of send_handlers.rs and receive_handlers.rs leave alone
startVars == <<server_mode, start_pc, elapsed, server_up, probed, url_shown, tunnel_launched,
               process>>
poolVars == <<worker, task, shard>>
sendVars == <<send_sessions, arrived>>
storeVars == <<sessions, clock, mutex, caller, granted, refused>>
outerVars == <<startVars, call, poolVars, sendVars, storeVars>>
sessionVars == <<active, completed>>
coordVars == <<main_pc, listener, shutdown_init, signal_sent, exited, interrupts>>
transferVars == <<total_chunks, chunks_processed, progress, receive_sessions, files,
                  pendingDelete, disk, coordVars>>

\* ------------------------------------------------------------- helpers
RECURSIVE SumChunks(_)
CeilDiv(size) == (size + CHUNK_SIZE - 1) \div CHUNK_SIZE
SumChunks(sizes) ==
    IF sizes = <<>> THEN 0
    ELSE CeilDiv(Head(sizes)) + SumChunks(Tail(sizes))

Outcome(op, c, tok, ok, err) ==
    [op |-> op, client |-> c, token |-> tok, ok |-> ok, err |-> err]

\* --------------------------------------------------------- SessionCore
\* the state of the spec's state machine that the two flags encode
StateOf(act, comp) ==
    IF comp THEN "Completed" ELSE IF act THEN "Active" ELSE "Unclaimed"

SessionState == StateOf(active, completed)

\* AtomicBool::compare_exchange(false, true) on a flag holding cur
CompareExchange(cur) == [value |-> (IF cur = FALSE THEN TRUE ELSE cur), ok |-> (cur = FALSE)]

\* a claim that skips the token comparison of session.rs:62
Claim_NoTokenCheck(tok) ==
    [ok |-> CompareExchange(active).ok, active |-> CompareExchange(active).value]

\* SessionCore::claim: the result and the value of `active` after the call
Claim(tok) ==
    IF tok # TOKEN
    THEN [ok |-> FALSE, active |-> active]
    ELSE [ok |-> CompareExchange(active).ok, active |-> CompareExchange(active).value]

\* an is_active that does not load `completed` (session.rs:73 dropped)
IsActive_IgnoresCompleted(tok, c) == tok = TOKEN /\ active

\* SessionCore::is_active; the callers' client id has no counterpart in SessionCore
IsActive(tok, c) == tok = TOKEN /\ active /\ ~completed

\* SessionCore::complete: the result and the value of `completed` after the call
Complete(tok, c) ==
    IF tok # TOKEN \/ ~active
    THEN [ok |-> FALSE, completed |-> completed]
    ELSE [ok |-> TRUE, completed |-> TRUE]

\* auth.rs
RequireActiveSession(tok, c) == IsActive(tok, c)
ClaimOrValidateSession(tok, c) == Claim(tok)

\* history of the claim calls: who made `active` true, who was told `true`
Claimed(c, r) ==
    /\ claimer' = IF r.ok /\ ~active THEN c ELSE claimer
    /\ winners' = IF r.ok THEN winners \cup {c} ELSE winners

\* the multi-threaded runtime of #[tokio::main]: its worker threads, and the
\* chunk uploads that the model schedules on them
MaxWorkers == 2
MaxUploads == 3
Workers == 1..MaxWorkers
Uploads == 1..MaxUploads
Idle == 0

\* ------------------------------------------------------- src/session.rs
SESSION_LIFETIME == 900
MaxSessions == 2
MaxClock == 1350
OneTimeTokens == 1..MaxSessions
NoSession == [file_path |-> "", used |-> FALSE, created_at |-> -1]
NotCalling == [at |-> "idle", token |-> 0]

\* SessionStore::new, and no call of it in flight
InitStore ==
    /\ sessions = [t \in OneTimeTokens |-> NoSession]
    /\ clock = 0
    /\ mutex = NoClient
    /\ caller = [c \in Clients |-> NotCalling]
    /\ granted = [t \in OneTimeTokens |-> 0]
    /\ refused = {}

\* the server's state when start_https / start_tunnel is entered
InitServerOf(Sizes) ==
    /\ mode \in {"send", "receive"}
    /\ active = FALSE
    /\ completed = FALSE
    /\ manifest \in IF mode = "send" THEN [1..NumFiles -> Sizes] ELSE {<<>>}
    /\ total_chunks = SumChunks(manifest)
    /\ chunks_processed = 0
    /\ progress = <<0, 1>>
    /\ receive_sessions = [p \in RelPaths |-> NoEntry]
    /\ send_sessions = [f \in FileIndexes |-> NoSend]
    /\ arrived = [f \in FileIndexes |-> {}]
    /\ files = {}
    /\ pendingDelete = {}
    /\ disk = [p \in RelPaths |-> <<>>]
    /\ main_pc = "select"
    /\ listener = "listening"
    /\ shutdown_init = FALSE
    /\ signal_sent = FALSE
    /\ exited = FALSE
    /\ interrupts = 0
    /\ pc = [c \in Clients |-> "idle"]
    /\ claimer = NoClient
    /\ winners = {}
    /\ last = Outcome("none", NoClient, TOKEN, FALSE, "")
    /\ worker = [w \in Workers |-> Idle]
    /\ task = [t \in Uploads |-> "absent"]
    /\ shard = Idle
    /\ InitStore

InitServer == InitServerOf(FileSizes)

\* the state in which run_session starts: a local server that answered the
\* readiness probe, its URL printed
Started ==
    /\ server_mode = "local"
    /\ start_pc = "session"
    /\ elapsed = 0
    /\ server_up = TRUE
    /\ probed = TRUE
    /\ url_shown = TRUE
    /\ tunnel_launched = FALSE
    /\ process = "none"

\* no library function has been called directly
NoCall == [fn |-> "none"]

Init ==
    /\ InitServer
    /\ Started
    /\ call = NoCall

\* ----------------------------------------- direct calls of the session API
\* a thread enters Session::claim(tok)
ClaimCall(c, tok) ==
    /\ pc[c] = "idle"
    /\ pc' = [pc EXCEPT ![c] = tok]
    /\ UNCHANGED <<outerVars, mode, manifest, sessionVars, transferVars, claimer, winners, last>>

\* the call's compare_exchange on `active` (its only shared access) and its return
ClaimReturn(c) ==
    /\ pc[c] # "idle"
    /\ LET r == Claim(pc[c]) IN
       /\ active' = r.active
       /\ Claimed(c, r)
       /\ last' = Outcome("claim", c, pc[c], r.ok, IF r.ok THEN "" ELSE "rejected")
    /\ pc' = [pc EXCEPT ![c] = "idle"]
    /\ UNCHANGED <<outerVars, mode, manifest, completed, transferVars>>

\* Session::is_active
IsActiveCall(c, tok) ==
    /\ last' = Outcome("is_active", c, tok, IsActive(tok, c), "")
    /\ UNCHANGED <<outerVars, mode, manifest, sessionVars, transferVars, pc, claimer, winners>>

\* Session::complete
CompleteCall(c, tok) ==
    /\ LET r == Complete(tok, c) IN
       /\ completed' = r.completed
       /\ last' = Outcome("complete", c, tok, r.ok, IF r.ok THEN "" ELSE "rejected")
    /\ UNCHANGED <<outerVars, mode, manifest, active, transferVars, pc, claimer, winners>>

\* ------------------------------------------- crypto/types.rs, crypto/decrypt.rs
\* Integer widths are scaled so that every value stays inside TLC's integers:
\* a byte has ByteBits bits, a u32 four such bytes, a u64 / usize eight.
ByteBits == 3
ByteMod == 2 ^ ByteBits
U32Mod == 2 ^ (4 * ByteBits)
U64Mod == 2 ^ (8 * ByteBits)

\* `x as u32` for a usize x
AsU32(x) == x % U32Mod

\* u32::to_be_bytes
ToBeBytes(counter) ==
    [k \in 1..4 |-> (counter \div (ByteMod ^ (4 - k))) % ByteMod]

\* a byte buffer, or the panic that ended the call which was to produce it
Bytes(b) == [panic |-> FALSE, bytes |-> b]
Panic == [panic |-> TRUE, bytes |-> <<>>]

\* dst[lo..hi].copy_from_slice(src): panics unless both slices have the same
\* length.  Sequences are 1-based: dst[lo..hi] is dst[lo + 1] .. dst[hi]
CopyFromSlice(dst, lo, hi, src) ==
    IF dst.panic \/ hi - lo # Len(src)
    THEN Panic
    ELSE Bytes([k \in 1..Len(dst.bytes) |->
                  IF lo < k /\ k <= hi THEN src[k - lo] ELSE dst.bytes[k]])

Zeroes(n) == Bytes([k \in 1..n |-> 0])

\* decrypt.rs:13-15: the 12-byte nonce of decrypt_chunk_at_position(key, ..)
FullNonce(nonce_base, counter) ==
    CopyFromSlice(CopyFromSlice(Zeroes(12), 0, 7, nonce_base), 7, 11, ToBeBytes(counter))

\* Nonce::from_base64 on the nonce strings of the model: the empty string
\* decodes to no bytes (rejected: not 7 bytes), "valid" to a 7-byte base
DecodeNonce(str) == IF str = "valid" THEN <<1, 2, 3, 4, 5, 6, 7>> ELSE <<>>

\* Nonce::with_counter (types.rs:79-85), the nonce of the cipher-taking
\* encrypt_chunk_at_position / decrypt_chunk_at_position of crypto/encryption.rs:
\* full_nonce[..8].copy_from_slice(7 bytes), full_nonce[7..12].copy_from_slice(4 bytes)
WithCounter(nonce_base, counter) ==
    CopyFromSlice(CopyFromSlice(Zeroes(12), 0, 8, nonce_base), 7, 12, ToBeBytes(counter))

\* AES-256-GCM as an ideal AEAD: a ciphertext is determined by key, nonce and
\* plaintext, is TAG_LEN bytes longer than the plaintext, and opens only under
\* the key and nonce that sealed it
TAG_LEN == 16
KEY == "session-key"
OtherKey == "other-key"
NoText == [panic |-> TRUE, err |-> FALSE, key |-> "", nonce |-> <<>>, plain |-> <<>>, len |-> 0]
Seal(key, nonce12, plain, plain_len) ==
    [panic |-> FALSE, err |-> FALSE, key |-> key, nonce |-> nonce12, plain |-> plain,
     len |-> plain_len + TAG_LEN]
Open(key, nonce12, ct) ==
    IF ct.key = key /\ ct.nonce = nonce12
    THEN [panic |-> FALSE, err |-> FALSE, plain |-> ct.plain]
    ELSE [panic |-> FALSE, err |-> TRUE, plain |-> <<>>]

\* crypto/encryption.rs: encrypt_chunk_at_position / decrypt_chunk_at_position
EncryptChunkAtPosition(key, nonce_base, plain, plain_len, counter) ==
    IF WithCounter(nonce_base, counter).panic THEN NoText
    ELSE Seal(key, WithCounter(nonce_base, counter).bytes, plain, plain_len)
DecryptChunkAtPosition(key, nonce_base, ct, counter) ==
    IF ct.panic \/ WithCounter(nonce_base, counter).panic
    THEN [panic |-> TRUE, err |-> FALSE, plain |-> <<>>]
    ELSE Open(key, WithCounter(nonce_base, counter).bytes, ct)

\* u64 arithmetic: an overflow panics in a build with overflow checks (the
\* debug profile) and wraps in one without (the release profile)
Builds == {"debug", "release"}
U64(value, build) ==
    IF 0 <= value /\ value < U64Mod THEN [panic |-> FALSE, value |-> value]
    ELSE IF build = "debug" THEN [panic |-> TRUE, value |-> 0]
    ELSE [panic |-> FALSE, value |-> value % U64Mod]

\* ------------------------------------------------- server/modes.rs: serving
\* count_active_transfers: the sizes of the two registries
TransferCount ==
    Cardinality({p \in DOMAIN receive_sessions : receive_sessions[p] # NoEntry})
    + Cardinality({f \in DOMAIN send_sessions : send_sessions[f] # NoSend})

\* requests are served from start-up until cleanup_sessions
Serving == ~exited /\ main_pc \in {"select", "teardown", "shutdown", "drain"}

\* ------------------------------------------------ send_handlers.rs (send mode)
\* manifest_handler
ManifestHandler(c, tok) ==
    /\ Serving
    /\ mode = "send"
    /\ LET r == ClaimOrValidateSession(tok, c) IN
       /\ active' = r.active
       /\ Claimed(c, r)
       /\ last' = Outcome("manifest", c, tok, r.ok, IF r.ok THEN "" ELSE "auth")
    /\ UNCHANGED <<outerVars, mode, manifest, completed, transferVars, pc>>

\* Session::get_file
HasFile(f) == f + 1 \in DOMAIN manifest
FileSize(f) == manifest[f + 1]

\* Manifest::new, line 48: the nonce base of a file is an OsRng draw of 7
\* bytes; the model takes the draw of file f to end in the byte f
FileNonce(f) == [k \in 1..7 |-> IF k = 7 THEN f ELSE 0]

\* the bytes [from, to) of file f, as read_chunk_blocking returns them
FileRange(f, from, to) == [file |-> f, from |-> from, to |-> to]

\* send_handler, lines 60-67: start, end, the bounds check and chunk_len; the
\* first step that fails ("" when none does)
ChunkBounds(f, i, build) ==
    LET start == U64(i * CHUNK_SIZE, build)
        sum == U64(start.value + CHUNK_SIZE, build)
        end == IF sum.value < FileSize(f) THEN sum.value ELSE FileSize(f)
        len == U64(end - start.value, build)
    IN [start |-> start.value, end |-> end,
        err |-> IF start.panic \/ sum.panic THEN "panic"
                ELSE IF start.value >= FileSize(f) THEN "bounds"
                ELSE IF len.panic THEN "panic"
                ELSE ""]

\* send_handler; io_ok: whether read_chunk_blocking could read the source
\* file.  The chunk is counted (line 74) before it is encrypted (line 84); a
\* panic ends the request without a response
SendHandler(c, tok, f, i, io_ok) ==
    /\ Serving
    /\ mode = "send"
    /\ \E b \in {IF HasFile(f) THEN ChunkBounds(f, i, build)
                 ELSE [start |-> 0, end |-> 0, err |-> "file_index"] : build \in Builds} :
       \E err \in {IF ~RequireActiveSession(tok, c) THEN "auth"
                   ELSE IF b.err # "" THEN b.err
                   ELSE IF ~io_ok THEN "io"
                   ELSE ""} :
       \E body \in {IF err = ""
                    THEN EncryptChunkAtPosition(KEY, FileNonce(f), FileRange(f, b.start, b.end),
                                                b.end - b.start, AsU32(i))
                    ELSE NoText} :
       /\ err = "" => chunks_processed < MaxProcessed
       /\ IF err = ""
          THEN /\ chunks_processed' = chunks_processed + 1
               /\ progress' = <<chunks_processed + 1, total_chunks>>
          ELSE UNCHANGED <<chunks_processed, progress>>
       /\ last' = Outcome("send_chunk", c, tok, err = "" /\ ~body.panic,
                          IF err = "" /\ body.panic THEN "panic" ELSE err)
                    @@ [file |-> f, index |-> i, body |-> body]
    /\ UNCHANGED <<outerVars, mode, manifest, sessionVars, total_chunks, receive_sessions,
                   files, pendingDelete, disk, coordVars, pc, claimer, winners>>

\* get_file_hash
GetFileHash(c, tok, f, io_ok) ==
    /\ Serving
    /\ mode = "send"
    /\ LET err == IF ~RequireActiveSession(tok, c) THEN "auth"
                  ELSE IF ~HasFile(f) THEN "file_index"
                  ELSE IF ~io_ok THEN "io"
                  ELSE ""
       IN last' = Outcome("hash", c, tok, err = "", err)
    /\ UNCHANGED <<outerVars, mode, manifest, sessionVars, transferVars, pc, claimer, winners>>

\* complete_download
CompleteDownload(c, tok) ==
    /\ Serving
    /\ mode = "send"
    /\ IF ~RequireActiveSession(tok, c)
       THEN /\ last' = Outcome("complete_download", c, tok, FALSE, "auth")
            /\ UNCHANGED <<completed, progress>>
       ELSE /\ completed' = Complete(tok, c).completed
            /\ progress' = <<1, 1>>
            /\ last' = Outcome("complete_download", c, tok, TRUE, "")
    /\ UNCHANGED <<outerVars, mode, manifest, active, total_chunks, chunks_processed,
                   receive_sessions, files, pendingDelete, disk, coordVars, pc,
                   claimer, winners>>

\* ------------------------------------------- transfer/security.rs, storage.rs
\* security::hash_path: the registry key of a relative path
hash_path(path) == path

\* a validate_path that accepts every path
ValidatePath_AcceptsAll(path) == TRUE

\* security::validate_path over the components of a relative path
ValidatePath(path) ==
    /\ path # <<>>
    /\ \A k \in DOMAIN path : path[k] \notin {"..", "/"}

\* ChunkStorage::new
NewStorage(file_size) ==
    IF file_size < MEMORY_THRESHOLD
    THEN [kind |-> "Memory", chunks |-> {}, bad |-> {}]
    ELSE [kind |-> "DirectWrite", chunks |-> {}, bad |-> {}]

\* a has_chunk that never finds the index (the duplicate check of
\* receive_handlers.rs:134 never fires)
HasChunk_NeverFound(st, i) == FALSE

\* ChunkStorage::has_chunk / chunk_count
HasChunk(st, i) == i \in st.chunks
ChunkCount(st) == Cardinality(st.chunks)

\* ChunkStorage::store_chunk; authentic: whether the ciphertext's tag verifies
StoreChunkOk(st, i, authentic) == st.kind = "Memory" \/ authentic
StoreChunk(st, i, authentic) ==
    IF st.kind = "Memory"
    THEN [st EXCEPT !.chunks = @ \cup {i},
                    !.bad = IF authentic THEN @ \ {i} ELSE @ \cup {i}]
    ELSE IF authentic THEN [st EXCEPT !.chunks = @ \cup {i}] ELSE st

\* a guard that is never armed (PartialFileGuard::drop finds path = None)
Armed_Never(st, finalized) == FALSE

\* PartialFileGuard at the drop of its storage: armed from ChunkStorage::new
\* (DirectWrite only) until a successful finalize disarms it
Armed(st, finalized) == st.kind = "DirectWrite" /\ ~finalized

\* store_chunk, lines 97-99: DirectWrite appends the decrypted chunk at the
\* file's current position (write_all, no seek); Memory writes nothing yet
WriteAll(content, st, i, stored) ==
    IF stored /\ st.kind = "DirectWrite" THEN Append(content, i) ELSE content

\* finalize, lines 115-128, Memory: chunks 0, 1, ... are decrypted and written
\* in index order up to the first one that is missing or fails to decrypt
MemoryWritten(st, total) ==
    LET good == {k \in 0..total : \A j \in 0..(k - 1) : j \in st.chunks /\ j \notin st.bad}
        n == CHOOSE k \in good : \A m \in good : m <= k
    IN [j \in 1..n |-> j - 1]

\* receive_manifest, line 59: the chunks of one file, in u64; -1 for a panic
FileChunks(size, build) ==
    IF size + CHUNK_SIZE < U64Mod THEN (size + CHUNK_SIZE - 1) \div CHUNK_SIZE
    ELSE IF build = "debug" THEN -1
    ELSE U64(U64(size + CHUNK_SIZE, build).value - 1, build).value \div CHUNK_SIZE

\* u64 + u64 of Iterator::sum; -1 for a panic, also that of an operand
AddU64(a, b, build) ==
    IF a < 0 \/ b < 0 THEN -1
    ELSE IF a + b < U64Mod THEN a + b
    ELSE IF build = "debug" THEN -1
    ELSE (a + b) % U64Mod

\* receive_manifest, lines 56-60: the sum in u64 over the files; -1 for a panic
RECURSIVE TotalChunks(_, _)
TotalChunks(sizes, build) ==
    IF sizes = <<>> THEN 0
    ELSE AddU64(FileChunks(Head(sizes), build), TotalChunks(Tail(sizes), build), build)

\* receive_manifest; a manifest whose count overflows panics in a build with
\* overflow checks (no response, nothing stored) and wraps in one without
ReceiveManifest(c, tok, sizes) ==
    /\ Serving
    /\ mode = "receive"
    /\ \E r \in {ClaimOrValidateSession(tok, c)} :
       \E total \in {TotalChunks(sizes, build) : build \in Builds} :
       /\ active' = r.active
       /\ Claimed(c, r)
       /\ total_chunks' = IF r.ok /\ total >= 0 THEN total ELSE total_chunks
       /\ last' = Outcome("receive_manifest", c, tok, r.ok /\ total >= 0,
                          IF ~r.ok THEN "auth" ELSE IF total < 0 THEN "panic" ELSE "")
    /\ UNCHANGED <<outerVars, mode, manifest, completed, chunks_processed, progress,
                   receive_sessions, files, pendingDelete, disk, coordVars, pc>>

\* receive_handler, lines 105-118: the FileReceiveState inserted for a new file
NewFileState(total, file_size, nonce) ==
    NewStorage(file_size) @@ [total_chunks |-> total, nonce |-> nonce, file_size |-> file_size]

\* receive_handler, lines 125-131: the nonce field fills an empty nonce
WithNonce(entry, nonce) ==
    IF nonce # "" /\ entry.nonce = "" THEN [entry EXCEPT !.nonce = nonce] ELSE entry

\* receive_handler, lines 83-89: which helper of auth.rs guards this upload
ClaimsSession(is_new_file, i) == is_new_file /\ i = 0

\* receive_handler, the first failing step of an upload ("" when none fails)
ReceiveError(auth_ok, is_new_file, path, entry, i, authentic) ==
    IF ~auth_ok THEN "auth"
    ELSE IF is_new_file /\ ~ValidatePath(path) THEN "path"
    ELSE IF HasChunk(entry, i) THEN ""
    ELSE IF entry.nonce = "" THEN "nonce"
    ELSE IF ~StoreChunkOk(entry, i, authentic) THEN "decrypt"
    ELSE ""

\* receive_handler
ReceiveHandler(c, tok, path, i, total, file_size, nonce, authentic) ==
    /\ Serving
    /\ mode = "receive"
    /\ \E is_new_file \in {receive_sessions[hash_path(path)] = NoEntry} :
       \E claiming \in {ClaimsSession(is_new_file, i)} :
       \E r \in {IF claiming THEN ClaimOrValidateSession(tok, c)
                 ELSE [ok |-> RequireActiveSession(tok, c), active |-> active]} :
       \E entry \in {WithNonce(IF is_new_file THEN NewFileState(total, file_size, nonce)
                               ELSE receive_sessions[hash_path(path)], nonce)} :
       \E err \in {ReceiveError(r.ok, is_new_file, path, entry, i, authentic)} :
       \E stored \in {err = "" /\ ~HasChunk(entry, i)} :
       \E created \in {err \notin {"auth", "path"} /\ is_new_file /\ entry.kind = "DirectWrite"} :
       \E after \in {IF stored THEN StoreChunk(entry, i, authentic) ELSE entry} :
       /\ stored => chunks_processed < MaxProcessed
       /\ active' = r.active
       /\ IF claiming THEN Claimed(c, r) ELSE UNCHANGED <<claimer, winners>>
       /\ receive_sessions' =
            IF err \in {"auth", "path"} THEN receive_sessions
            ELSE [receive_sessions EXCEPT ![hash_path(path)] = after]
       \* ChunkStorage::new creates the file; store_chunk appends the plaintext to it
       /\ files' = IF created THEN files \cup {path} ELSE files
       /\ disk' = [disk EXCEPT ![path] =
                     WriteAll(IF created THEN <<>> ELSE @, entry, i, stored)]
       /\ chunks_processed' = IF stored THEN chunks_processed + 1 ELSE chunks_processed
       /\ progress' = IF stored /\ total_chunks > 0
                      THEN <<chunks_processed + 1, total_chunks>> ELSE progress
       /\ last' = Outcome("receive_chunk", c, tok, err = "",
                          IF err = "" /\ ~stored THEN "duplicate" ELSE err)
                    @@ [received |-> IF err = "" THEN ChunkCount(after) ELSE 0,
                        path |-> path]
    /\ UNCHANGED <<outerVars, mode, manifest, completed, total_chunks, pendingDelete, coordVars, pc>>

\* finalize_upload; path = NoPath: the multipart body has no relativePath field
FinalizeUpload(c, tok, path) ==
    /\ Serving
    /\ mode = "receive"
    /\ LET file_id == hash_path(path)
           entry == receive_sessions[file_id]
           removed == RequireActiveSession(tok, c) /\ path # NoPath /\ entry # NoEntry
           err == IF ~RequireActiveSession(tok, c) THEN "auth"
                  ELSE IF path = NoPath THEN "missing_path"
                  ELSE IF entry = NoEntry THEN "no_session"
                  ELSE IF ChunkCount(entry) # entry.total_chunks THEN "incomplete"
                  ELSE IF entry.kind = "Memory" /\ (0..(entry.total_chunks - 1)) \ entry.chunks # {}
                       THEN "missing_chunk"
                  ELSE IF entry.kind = "Memory" /\ entry.bad # {} THEN "decrypt"
                  ELSE ""
       IN
       /\ receive_sessions' = IF removed THEN [receive_sessions EXCEPT ![file_id] = NoEntry]
                              ELSE receive_sessions
       \* Memory: finalize creates the destination file before it decrypts the chunks
       /\ files' = IF removed /\ entry.kind = "Memory" /\ err # "incomplete"
                   THEN files \cup {path} ELSE files
       /\ disk' = IF removed /\ entry.kind = "Memory" /\ err # "incomplete"
                  THEN [disk EXCEPT ![path] = MemoryWritten(entry, entry.total_chunks)]
                  ELSE disk
       \* DirectWrite: a guard dropped while armed hands the path to a cleanup thread
       /\ pendingDelete' = IF removed /\ Armed(entry, err = "")
                           THEN pendingDelete \cup {path} ELSE pendingDelete
       /\ last' = Outcome("finalize", c, tok, err = "", err)
    /\ UNCHANGED <<outerVars, mode, manifest, sessionVars, total_chunks, chunks_processed,
                   progress, coordVars, pc, claimer, winners>>

\* the thread spawned by PartialFileGuard::drop
RemoveFile(path) ==
    /\ ~exited
    /\ path \in pendingDelete
    /\ files' = files \ {path}
    /\ pendingDelete' = pendingDelete \ {path}
    /\ disk' = [disk EXCEPT ![path] = <<>>]
    /\ UNCHANGED <<outerVars, mode, manifest, sessionVars, total_chunks, chunks_processed,
                   progress, receive_sessions, coordVars, pc, claimer, winners, last>>

\* complete_transfer
CompleteTransfer(c, tok) ==
    /\ Serving
    /\ mode = "receive"
    /\ IF ~RequireActiveSession(tok, c)
       THEN /\ last' = Outcome("complete_transfer", c, tok, FALSE, "auth")
            /\ UNCHANGED <<completed, progress>>
       ELSE /\ completed' = Complete(tok, c).completed
            /\ progress' = <<1, 1>>
            /\ last' = Outcome("complete_transfer", c, tok, TRUE, "")
    /\ UNCHANGED <<outerVars, mode, manifest, active, total_chunks, chunks_processed,
                   receive_sessions, files, pendingDelete, disk, coordVars, pc,
                   claimer, winners>>

\* the chunk uploads of the browser client: the nonce travels with chunk 0,
\* the declared size selects the direct-write storage, the ciphertext is authentic
UploadNonce(i) == IF i = 0 THEN "valid" ELSE ""

\* the server: the routes of create_send_router and create_receive_router
Next ==
    \/ \E c \in Clients, tok \in Tokens : ManifestHandler(c, tok)
    \/ \E c \in Clients, tok \in Tokens, f \in FileIndexes, i \in ChunkIndexes :
          SendHandler(c, tok, f, i, TRUE)
    \/ \E c \in Clients, tok \in Tokens, f \in FileIndexes : GetFileHash(c, tok, f, TRUE)
    \/ \E c \in Clients, tok \in Tokens : CompleteDownload(c, tok)
    \/ \E c \in Clients, tok \in Tokens, sizes \in ManifestInputs : ReceiveManifest(c, tok, sizes)
    \/ \E c \in Clients, tok \in Tokens, path \in RelPaths, i \in ChunkIndexes :
          ReceiveHandler(c, tok, path, i, MaxChunkIndex + 1, MEMORY_THRESHOLD, UploadNonce(i), TRUE)
    \/ \E c \in Clients, tok \in Tokens, path \in RelPaths : FinalizeUpload(c, tok, path)
    \/ \E path \in RelPaths : RemoveFile(path)
    \/ \E c \in Clients, tok \in Tokens : CompleteTransfer(c, tok)

Spec == Init /\ [][Next]_vars

\* the session API on its own, as tests/session_tests.rs drives it, with
\* claim calls of several threads in flight at once
NextSession ==
    \/ \E c \in Clients, tok \in Tokens : ClaimCall(c, tok)
    \/ \E c \in Clients : ClaimReturn(c)
    \/ \E c \in Clients, tok \in Tokens : IsActiveCall(c, tok)
    \/ \E c \in Clients, tok \in Tokens : CompleteCall(c, tok)

SpecSession == Init /\ [][NextSession]_vars

\* the upload path of one client with every form field free: any declared
\* totalChunks and fileSize, a nonce on any chunk, a ciphertext that may not verify
Uploader == 1
Totals == 1..(MaxChunkIndex + 1)
StorageSizes == {1, MEMORY_THRESHOLD}
Nonces == {"", "valid"}

\* the totalChunks / fileSize fields of an upload: free for a file's first
\* upload, afterwards the client repeats what it declared (receive_handler
\* reads them only when it inserts the FileReceiveState)
Declared(path) ==
    IF receive_sessions[hash_path(path)] = NoEntry
    THEN Totals \X StorageSizes
    ELSE {<<receive_sessions[hash_path(path)].total_chunks,
            receive_sessions[hash_path(path)].file_size>>}

\* the manifest the client announces: one file of two chunks
UploadManifest == <<CHUNK_SIZE + 1>>

NextStorage ==
    \/ ReceiveManifest(Uploader, TOKEN, UploadManifest)
    \/ \E path \in RelPaths, i \in ChunkIndexes, nonce \in Nonces, authentic \in BOOLEAN :
       \E d \in Declared(path) :
          ReceiveHandler(Uploader, TOKEN, path, i, d[1], d[2], nonce, authentic)
    \/ \E path \in RelPaths : FinalizeUpload(Uploader, TOKEN, path)
    \/ \E path \in RelPaths : RemoveFile(path)

SpecStorage == Init /\ [][NextStorage]_vars

\* the cleanup threads spawned by PartialFileGuard::drop are OS threads: while
\* the process lives each of them runs to its remove_file
SpecStorageLive ==
    SpecStorage /\ \A path \in RelPaths : WF_vars(RemoveFile(path))

\* ---------------------------------------- server/modes.rs: run_session, shutdown
\* a SIGINT reaches the process.  tokio's handler stays installed for the life
\* of the process; the signal has an effect only while ctrl_c_task listens
\* (lines 188-207): the first one sets the flag and notifies the main task, a
\* later one calls std::process::exit(1)
Interrupt ==
    /\ ~exited
    /\ interrupts < MaxInterrupts
    /\ interrupts' = interrupts + 1
    /\ IF listener = "listening"
       THEN IF shutdown_init
            THEN /\ exited' = TRUE
                 /\ UNCHANGED <<shutdown_init, signal_sent>>
            ELSE /\ shutdown_init' = TRUE
                 /\ signal_sent' = TRUE
                 /\ UNCHANGED exited
       ELSE UNCHANGED <<shutdown_init, signal_sent, exited>>
    /\ UNCHANGED <<outerVars, mode, manifest, sessionVars, total_chunks, chunks_processed, progress,
                   receive_sessions, files, pendingDelete, disk, main_pc, listener,
                   pc, claimer, winners, last>>

\* the coordinator moves from one program point to the next
Goto(from, to) ==
    /\ ~exited
    /\ main_pc = from
    /\ main_pc' = to
    /\ UNCHANGED <<startVars, call, poolVars, storeVars, mode, manifest, sessionVars, total_chunks, chunks_processed, progress,
                   pc, claimer, winners, last, interrupts, exited>>

\* select!, first arm (line 211): the TUI task ended (a key, or progress >= 100)
SelectTui ==
    /\ Goto("select", "teardown")
    /\ UNCHANGED <<receive_sessions, sendVars, storeVars, files, pendingDelete, disk, listener,
                   shutdown_init, signal_sent>>

\* select!, second arm (line 216): the Ctrl+C task's message
SelectSignal ==
    /\ signal_sent
    /\ Goto("select", "teardown")
    /\ signal_sent' = FALSE
    /\ UNCHANGED <<receive_sessions, sendVars, storeVars, files, pendingDelete, disk, listener, shutdown_init>>

\* lines 223-248: warning, TUI abort, tunnel kill, ctrl_c_task.abort()
Teardown ==
    /\ Goto("teardown", "shutdown")
    /\ listener' = "aborted"
    /\ UNCHANGED <<receive_sessions, sendVars, storeVars, files, pendingDelete, disk, shutdown_init, signal_sent>>

\* shutdown, lines 270-274: server_handle.shutdown(), then wait_for_transfers
Shutdown ==
    /\ Goto("shutdown", "drain")
    /\ UNCHANGED <<receive_sessions, sendVars, storeVars, files, pendingDelete, disk, listener,
                   shutdown_init, signal_sent>>

\* one sample of wait_for_transfers' loop (lines 305-328); force_exit is the
\* AtomicBool run_session passed in: shutdown_init
WaitForTransfers ==
    /\ Goto("drain", IF shutdown_init \/ TransferCount = 0 THEN "cleanup" ELSE "drain")
    /\ UNCHANGED <<receive_sessions, sendVars, storeVars, files, pendingDelete, disk, listener,
                   shutdown_init, signal_sent>>

\* cleanup_sessions: clearing the map drops every FileReceiveState in it
CleanupSessions ==
    /\ Goto("cleanup", "done")
    /\ receive_sessions' = [p \in RelPaths |-> NoEntry]
    /\ send_sessions' = [f \in FileIndexes |-> NoSend]
    /\ UNCHANGED arrived
    /\ pendingDelete' = pendingDelete \cup
          {p \in RelPaths : /\ receive_sessions[hash_path(p)] # NoEntry
                            /\ Armed(receive_sessions[hash_path(p)], FALSE)}
    /\ UNCHANGED <<files, disk, listener, shutdown_init, signal_sent>>

\* run_session returns and main ends: the process exits, its threads with it
Exit ==
    /\ ~exited
    /\ main_pc = "done"
    /\ exited' = TRUE
    /\ UNCHANGED <<outerVars, mode, manifest, sessionVars, total_chunks, chunks_processed, progress,
                   receive_sessions, files, pendingDelete, disk, main_pc, listener,
                   shutdown_init, signal_sent, interrupts, pc, claimer, winners, last>>

\* the coordinator's own steps
Coordinator ==
    SelectTui \/ SelectSignal \/ Teardown \/ Shutdown \/ WaitForTransfers
       \/ CleanupSessions \/ Exit

\* a receive server with its coordinator, the uploads of one client and the
\* operator's interrupts
NextShutdown ==
    \/ \E path \in RelPaths, i \in ChunkIndexes :
          ReceiveHandler(Uploader, TOKEN, path, i, MaxChunkIndex + 1, MEMORY_THRESHOLD,
                         UploadNonce(i), TRUE)
    \/ \E path \in RelPaths : FinalizeUpload(Uploader, TOKEN, path)
    \/ \E path \in RelPaths : RemoveFile(path)
    \/ Interrupt
    \/ SelectTui
    \/ SelectSignal
    \/ Teardown
    \/ Shutdown
    \/ WaitForTransfers
    \/ CleanupSessions
    \/ Exit

SpecShutdown == Init /\ [][NextShutdown]_vars

\* the tokio runtime keeps polling the main task: the coordinator takes every
\* step that stays possible, and a drain sample that could end the loop again
\* and again is eventually taken
SpecShutdownLive == SpecShutdown /\ SF_vars(Coordinator)

\* ------------------------- server/runtime.rs, server/helpers.rs: start-up
\* wait_for_server_ready's clock, in milliseconds
READY_TIMEOUT_SECS == 5
PROBE_TIMEOUT_MS == 500
PROBE_SLEEP_MS == 100
ReadyTimeout == READY_TIMEOUT_SECS * 1000

\* how long one GET /health takes: refused at once, or the client's timeout
ProbeDurations == {0, PROBE_TIMEOUT_MS}

\* the answer to GET /health: the route of routes.rs answers 200 once the
\* spawned server accepts connections, before that the request fails
Health == IF server_up THEN "200" ELSE "failed"

\* a probe that takes any answer for readiness
IsSuccess_AnyAnswer(resp) == TRUE

\* helpers.rs:31, Ok(response) if response.status().is_success()
IsSuccess(resp) == resp = "200"

StartStep(from, to) ==
    /\ start_pc = from
    /\ start_pc' = to
    /\ UNCHANGED <<mode, manifest, sessionVars, transferVars, pc, claimer, winners, last,
                   server_mode, call, poolVars, sendVars, storeVars>>

\* start_local_server, lines 105-147: bind, certificate, spawn of the server
\* task; ok = FALSE: bind or certificate generation failed
StartLocalServer(ok) ==
    /\ StartStep("init", IF ok THEN "probe" ELSE "failed")
    /\ UNCHANGED <<elapsed, server_up, probed, url_shown, tunnel_launched, process>>

\* the spawned server task starts to accept connections
ServerUp ==
    /\ start_pc \in {"probe", "ready", "url"}
    /\ ~server_up
    /\ server_up' = TRUE
    /\ UNCHANGED <<mode, manifest, sessionVars, transferVars, pc, claimer, winners, last,
                   server_mode, start_pc, elapsed, probed, url_shown, tunnel_launched, process,
                   call, poolVars, sendVars, storeVars>>

\* one turn of wait_for_server_ready's loop (helpers.rs:22-38): the timeout
\* check, the request, and the sleep after a request that did not succeed
Probe(d) ==
    /\ start_pc = "probe"
    /\ IF elapsed > ReadyTimeout
       THEN /\ StartStep("probe", "failed")
            /\ UNCHANGED <<elapsed, probed>>
       ELSE IF IsSuccess(Health)
       THEN /\ StartStep("probe", "ready")
            /\ elapsed' = elapsed + d
            /\ probed' = (probed \/ Health = "200")
       ELSE /\ StartStep("probe", "probe")
            /\ elapsed' = elapsed + d + PROBE_SLEEP_MS
            /\ UNCHANGED probed
    /\ UNCHANGED <<server_up, url_shown, tunnel_launched, process>>

\* start_tunnel, lines 71-73: CloudflareTunnel::start (tunnel.rs 23-65) spawns
\* cloudflared; ok = FALSE: no metrics port or the spawn failed (no child),
\* or no tunnel URL was obtained and the child was killed (lines 51-56)
StartTunnel(ok) ==
    /\ server_mode = "tunnel"
    /\ StartStep("ready", IF ok THEN "url" ELSE "failed")
    /\ process' \in IF ok THEN {"running"} ELSE {"none", "killed"}
    /\ tunnel_launched' = (process' # "none")
    /\ UNCHANGED <<elapsed, server_up, probed, url_shown>>

\* start_https, lines 30-40, start_tunnel, lines 76-85: the URL is composed
\* and printed, then run_session takes over
ShowUrl ==
    /\ StartStep(IF server_mode = "tunnel" THEN "url" ELSE "ready", "session")
    /\ url_shown' = TRUE
    /\ UNCHANGED <<elapsed, server_up, probed, tunnel_launched, process>>

\* the state in which start_https / start_tunnel is entered
InitStartup ==
    /\ InitServer
    /\ server_mode \in {"local", "tunnel"}
    /\ start_pc = "init"
    /\ elapsed = 0
    /\ server_up = FALSE
    /\ probed = FALSE
    /\ url_shown = FALSE
    /\ tunnel_launched = FALSE
    /\ process = "none"
    /\ call = NoCall

\* the steps of the task that runs start_https / start_tunnel
StartTask ==
    \/ \E ok \in BOOLEAN : StartLocalServer(ok)
    \/ \E d \in ProbeDurations : Probe(d)
    \/ \E ok \in BOOLEAN : StartTunnel(ok)
    \/ ShowUrl

NextStartup ==
    \/ \E ok \in BOOLEAN : StartLocalServer(ok)
    \/ ServerUp
    \/ \E d \in ProbeDurations : Probe(d)
    \/ \E ok \in BOOLEAN : StartTunnel(ok)
    \/ ShowUrl

SpecStartup == InitStartup /\ [][NextStartup]_vars

\* the runtime keeps polling the start-up task; the spawned server may never
\* come up
SpecStartupLive == SpecStartup /\ WF_vars(StartTask)

\* ------------------------------------------------------------- errors.rs
\* the HTTP response of a handler: Ok(..) is a 200 with the handler's payload,
\* every Err(AppError) is StatusCode::INTERNAL_SERVER_ERROR.into_response(),
\* a 500 with an empty body, whatever the error was; a handler that panicked
\* produced no response (status 0 here)
IntoResponse(err) ==
    IF err = "" \/ err = "duplicate"
    THEN [status |-> 200, body |-> "payload"]
    ELSE IF err = "panic"
    THEN [status |-> 0, body |-> ""]
    ELSE [status |-> 500, body |-> ""]

\* ------------------------------------------ storage.rs: the nonces of uploads
\* storage.rs:93-94, DirectWrite: the nonce under which chunk i of an entry
\* is decrypted, decrypt_chunk_at_position(key, nonce, data, chunk_index as u32)
StoreNonce(entry, i) == FullNonce(DecodeNonce(entry.nonce), AsU32(i))

\* uploads whose chunkIndex field is any usize: the indices of the other
\* specifications and the first one that `as u32` changes
WideIndexes == ChunkIndexes \cup {U32Mod}

NextWide ==
    \/ ReceiveManifest(Uploader, TOKEN, UploadManifest)
    \/ \E path \in RelPaths, i \in WideIndexes, nonce \in Nonces, authentic \in BOOLEAN :
       \E d \in Declared(path) :
          ReceiveHandler(Uploader, TOKEN, path, i, d[1], d[2], nonce, authentic)
    \/ \E path \in RelPaths : FinalizeUpload(Uploader, TOKEN, path)
    \/ \E path \in RelPaths : RemoveFile(path)

SpecWide == Init /\ [][NextWide]_vars

\* the download path of one client whose chunk_index is any usize: the indices
\* of the other specifications and the first one whose byte offset passes u64
Downloader == 1
FarIndexes == ChunkIndexes \cup {U64Mod \div CHUNK_SIZE}

NextSend ==
    \/ ManifestHandler(Downloader, TOKEN)
    \/ \E f \in FileIndexes, i \in FarIndexes, io_ok \in BOOLEAN :
          SendHandler(Downloader, TOKEN, f, i, io_ok)
    \/ \E f \in FileIndexes : GetFileHash(Downloader, TOKEN, f, TRUE)
    \/ CompleteDownload(Downloader, TOKEN)

SpecSend == Init /\ [][NextSend]_vars

\* a client whose manifest lists one zero-byte file: the file contributes no
\* chunk, so the flow is manifest, finalize, complete; the server runs with its
\* coordinator until it exits
EmptyFile == <<"a.bin">>
EmptyManifest == <<0>>

NextEmpty ==
    \/ \E c \in Clients, tok \in Tokens : ReceiveManifest(c, tok, EmptyManifest)
    \/ \E c \in Clients, tok \in Tokens, path \in {EmptyFile, NoPath} :
          FinalizeUpload(c, tok, path)
    \/ \E c \in Clients, tok \in Tokens : CompleteTransfer(c, tok)
    \/ Interrupt
    \/ SelectTui
    \/ SelectSignal
    \/ Teardown
    \/ Shutdown
    \/ WaitForTransfers
    \/ CleanupSessions
    \/ Exit

SpecEmpty == Init /\ [][NextEmpty]_vars

\* ------------------------------------- the codec called directly (tests/*.rs)
\* aead::stream::EncryptorBE32, as crypto/encrypt.rs:5-6 describes it: the
\* nonce of a message is the 7-byte base, the message's position as a
\* big-endian u32, and a last-block flag byte
StreamNonce(nonce_base, position, is_last) ==
    nonce_base \o ToBeBytes(position) \o <<IF is_last THEN 1 ELSE 0>>

\* EncryptorBE32::encrypt_next for the message at `position` (0-based)
StreamEncryptNext(key, nonce_base, plain, position) ==
    Seal(key, StreamNonce(nonce_base, position, FALSE), plain, Len(plain))

\* crypto/decrypt.rs: decrypt_chunk_at_position(key, ..), the one storage.rs calls
DecryptWithKey(key, nonce_base, ct, counter) ==
    IF ct.panic \/ FullNonce(nonce_base, counter).panic
    THEN [panic |-> TRUE, err |-> FALSE, plain |-> <<>>]
    ELSE Open(key, FullNonce(nonce_base, counter).bytes, ct)

\* the arguments the tests draw: keys, nonce bases, plaintexts, counters
MaxPlainLen == 2
Keys == {KEY, OtherKey}
NonceBases == {[k \in 1..7 |-> 0], [k \in 1..7 |-> k], [k \in 1..7 |-> ByteMod - 1]}
Plaintexts == UNION {[1..n -> {0, ByteMod - 1}] : n \in 0..MaxPlainLen}
Counters == {0, 1, 5, ByteMod, U32Mod - 1}

CodecInputs ==
    [fn : {"codec"}, stage : {"input"}, key : Keys, nonce : NonceBases,
     plain : Plaintexts, counter : Counters]

InitCodec ==
    /\ InitServer
    /\ Started
    /\ call \in CodecInputs

CodecStep(from, more) ==
    /\ call.fn = "codec"
    /\ call.stage = from
    /\ call' = more @@ call
    /\ UNCHANGED <<startVars, poolVars, sendVars, storeVars, mode, manifest, sessionVars, transferVars, pc,
                   claimer, winners, last>>

\* encrypt_chunk_at_position(cipher, nonce_base, plaintext, counter) of
\* crypto/encryption.rs; full_nonce is what its with_counter call returned
EncryptCall ==
    /\ call.fn = "codec" /\ call.stage = "input"
    /\ CodecStep("input",
                 [stage |-> "sealed", by |-> "encrypt_chunk_at_position",
                  full_nonce |-> WithCounter(call.nonce, call.counter),
                  ct |-> EncryptChunkAtPosition(call.key, call.nonce, call.plain,
                                                Len(call.plain), call.counter)])

\* the same message sealed by a stream encryptor, as the browser client and
\* tests/decryption_tests.rs do
StreamEncryptCall ==
    /\ call.fn = "codec" /\ call.stage = "input"
    /\ CodecStep("input",
                 [stage |-> "sealed", by |-> "EncryptorBE32",
                  full_nonce |-> Bytes(StreamNonce(call.nonce, call.counter, FALSE)),
                  ct |-> StreamEncryptNext(call.key, call.nonce, call.plain, call.counter)])

\* decrypt_chunk_at_position(cipher, ..) of crypto/encryption.rs on the
\* ciphertext; a panicked encryption has ended the caller
DecryptCall(dkey, dcounter) ==
    /\ call.fn = "codec" /\ call.stage = "sealed" /\ ~call.ct.panic
    /\ CodecStep("sealed",
                 [stage |-> "opened", with |-> "encryption.rs", dkey |-> dkey,
                  dcounter |-> dcounter,
                  out |-> DecryptChunkAtPosition(dkey, call.nonce, call.ct, dcounter)])

\* decrypt_chunk_at_position(key, ..) of crypto/decrypt.rs on the ciphertext
DecryptWithKeyCall(dkey, dcounter) ==
    /\ call.fn = "codec" /\ call.stage = "sealed" /\ ~call.ct.panic
    /\ CodecStep("sealed",
                 [stage |-> "opened", with |-> "decrypt.rs", dkey |-> dkey,
                  dcounter |-> dcounter,
                  out |-> DecryptWithKey(dkey, call.nonce, call.ct, dcounter)])

NextCodec ==
    \/ EncryptCall
    \/ StreamEncryptCall
    \/ \E dkey \in Keys, dcounter \in Counters : DecryptCall(dkey, dcounter)
    \/ \E dkey \in Keys, dcounter \in Counters : DecryptWithKeyCall(dkey, dcounter)

SpecCodec == InitCodec /\ [][NextCodec]_vars

\* ---------------------------------------------------------------------------
\* transfer/security.rs: validate_path on the characters of a path
\* ---------------------------------------------------------------------------

\* the byte '\0' of a path string
NUL == "NUL"

\* str::split('/'): the pieces of a path between its separators
RECURSIVE Split(_, _)
Split(path, piece) ==
    IF path = <<>> THEN <<piece>>
    ELSE IF Head(path) = "/" THEN <<piece>> \o Split(Tail(path), <<>>)
    ELSE Split(Tail(path), Append(piece, Head(path)))

\* Path::is_absolute on Unix: the path has a root
IsAbsolute(path) == path # <<>> /\ path[1] = "/"

\* Path::components on Unix: RootDir "/" for a leading separator, CurDir "."
\* only for a leading "." piece, ParentDir ".." for each ".." piece, Normal
\* for every other piece; empty pieces and later "." pieces are skipped
\* (Prefix components exist on Windows only)
Components(path) ==
    LET pieces == Split(path, <<>>)
        Kind(piece) == IF piece = <<".", ".">> THEN ".." ELSE "Normal"
        kept == SelectSeq(pieces, LAMBDA piece : piece \notin {<<>>, <<".">>})
    IN  (IF IsAbsolute(path) THEN <<"/">> ELSE <<>>)
        \o (IF ~IsAbsolute(path) /\ pieces[1] = <<".">> THEN <<".">> ELSE <<>>)
        \o [k \in DOMAIN kept |-> Kind(kept[k])]

\* a validate_path without the loop over the components
validate_path_NoComponents(path) ==
    IF path = <<>> THEN "Empty"
    ELSE IF \E k \in DOMAIN path : path[k] = NUL THEN "NullByte"
    ELSE IF IsAbsolute(path) THEN "AbsolutePath"
    ELSE ""

\* security::validate_path: the error returned, "" for Ok(())
validate_path(path) ==
    IF path = <<>> THEN "Empty"
    ELSE IF \E k \in DOMAIN path : path[k] = NUL THEN "NullByte"
    ELSE IF IsAbsolute(path) THEN "AbsolutePath"
    ELSE LET components == Components(path)
             bad == {k \in DOMAIN components : components[k] \in {"..", "/"}}
         IN  IF bad = {} THEN ""
             ELSE IF components[CHOOSE k \in bad : \A j \in bad : k <= j] = ".."
                  THEN "ContainsParentDir"
                  ELSE "AbsolutePath"

\* the paths of tests/traverse/util.rs and of the specification
AcceptedPaths ==
    { <<"a", "/", "b">>,
      <<"a", "/", ".", "/", "b">>,
      <<".", "/", "f", "i", "l", "e", ".", "t", "x", "t">>,
      <<"f", "i", "l", "e", ".", "t", "x", "t">>,
      <<"d", "i", "r", "/", "f", "i", "l", "e", ".", "t", "x", "t">> }
RejectedPaths ==
    { <<>>,
      <<".", ".", "/", "x">>,
      <<"/", "e", "t", "c", "/", "p", "a", "s", "s", "w", "d">>,
      <<"a", "/", ".", ".", "/", ".", ".", "/", "b">>,
      <<"d", "i", "r", "/", ".", ".", "/", ".", ".", "/", "f", "i", "l", "e", ".", "t", "x", "t">>,
      <<"f", "i", "l", "e", NUL, ".", "t", "x", "t">> }

\* every path of at most MaxPathLen characters over PathChars
MaxPathLen == 4
PathChars == {"a", ".", "/", NUL}
PathStrings == UNION {[1..n -> PathChars] : n \in 0..MaxPathLen}
PathInputs == PathStrings \cup AcceptedPaths \cup RejectedPaths

InitPath ==
    /\ InitServer
    /\ Started
    /\ call \in [fn : {"validate_path"}, stage : {"input"}, path : PathInputs]

\* validate_path(path)
ValidatePathCall ==
    /\ call.fn = "validate_path"
    /\ call.stage = "input"
    /\ call' = [call EXCEPT !.stage = "done"] @@ [result |-> validate_path(call.path)]
    /\ UNCHANGED <<startVars, poolVars, sendVars, storeVars, mode, manifest, sessionVars, transferVars, pc,
                   claimer, winners, last>>

NextPath == ValidatePathCall

SpecPath == InitPath /\ [][NextPath]_vars

\* ---------------------------------------------------------------------------
\* receive_manifest on any list of u64 sizes: the sizes of the other
\* specifications, the largest u64 and the first size whose rounding passes u64
\* ---------------------------------------------------------------------------
MaxSizes == 2
WideSizes == FileSizes \cup {U64Mod - CHUNK_SIZE, U64Mod - 1}
WideManifests == UNION { [1..n -> WideSizes] : n \in 0..MaxSizes }

\* the manifest that the uploading page posts
InitManifest ==
    /\ InitServer
    /\ Started
    /\ call \in [fn : {"receive_manifest"}, sizes : WideManifests]

NextManifest ==
    \/ \E c \in Clients, tok \in Tokens : ReceiveManifest(c, tok, call.sizes)
    \/ \E c \in Clients, tok \in Tokens : CompleteTransfer(c, tok)

SpecManifest == InitManifest /\ [][NextManifest]_vars

\* ---------------------------------------------------------------------------
\* receive_handler on the runtime's worker threads: concurrent uploads of
\* chunks of one file whose storage is DirectWrite.  The steps follow the
\* handler's accesses to the registry entry; what the upload stores is the
\* subject of ReceiveHandler
\* ---------------------------------------------------------------------------

\* the upload that worker thread w polls
Polled(w) == worker[w]

\* a request arrives: axum spawns the handler's future
Arrive(t) ==
    /\ task[t] = "absent"
    /\ task' = [task EXCEPT ![t] = "queued"]
    /\ UNCHANGED <<worker, shard>>
    /\ UNCHANGED <<startVars, call, sendVars, storeVars, mode, manifest, sessionVars, transferVars, pc,
                   claimer, winners, last>>

\* an idle worker thread takes a runnable future from the queue: a new one
\* starts at line 83, one whose file has been created resumes at line 109, one
\* woken by its write resumes after line 152
Poll(w, t) ==
    /\ worker[w] = Idle
    /\ task[t] \in {"queued", "created", "woken"}
    /\ worker' = [worker EXCEPT ![w] = t]
    /\ task' = [task EXCEPT ![t] = IF @ = "queued" THEN "contains_key"
                                   ELSE IF @ = "created" THEN "insert"
                                   ELSE "respond"]
    /\ UNCHANGED shard
    /\ UNCHANGED <<startVars, call, sendVars, storeVars, mode, manifest, sessionVars, transferVars, pc,
                   claimer, winners, last>>

\* the file that the uploads are chunks of
UploadPath == <<"a.bin">>

\* lines 83-94: contains_key takes the shard lock for the length of the call
\* (the thread waits while a guard holds it); its answer decides whether the
\* handler creates the file's storage
ContainsKey(w) ==
    /\ Polled(w) # Idle
    /\ task[Polled(w)] = "contains_key"
    /\ shard = Idle
    /\ task' = [task EXCEPT ![Polled(w)] =
                   IF receive_sessions[hash_path(UploadPath)] = NoEntry
                   THEN "new_storage" ELSE "get_mut"]
    /\ UNCHANGED <<worker, shard>>
    /\ UNCHANGED <<startVars, call, sendVars, storeVars, mode, manifest, sessionVars, transferVars, pc,
                   claimer, winners, last>>

\* lines 95-107 with storage.rs:39-44: ChunkStorage::new(..).await creates
\* (and truncates) the destination file on the blocking pool and arms its
\* guard; the future is suspended meanwhile
AwaitNewStorage(w) ==
    /\ Polled(w) # Idle
    /\ task[Polled(w)] = "new_storage"
    /\ task' = [task EXCEPT ![Polled(w)] = "created"]
    /\ worker' = [worker EXCEPT ![w] = Idle]
    /\ files' = files \cup {UploadPath}
    /\ disk' = [disk EXCEPT ![UploadPath] = <<>>]
    /\ UNCHANGED <<shard, receive_sessions, pendingDelete>>
    /\ UNCHANGED <<startVars, call, sendVars, storeVars, mode, manifest, sessionVars, total_chunks,
                   chunks_processed, progress, coordVars, pc, claimer, winners, last>>

\* lines 109-118: insert takes the shard lock for the length of the call and
\* puts the new FileReceiveState under the file id; an entry that is there
\* already is replaced and dropped, its storage and armed guard with it
Insert(w) ==
    /\ Polled(w) # Idle
    /\ task[Polled(w)] = "insert"
    /\ shard = Idle
    /\ task' = [task EXCEPT ![Polled(w)] = "get_mut"]
    /\ receive_sessions' =
          [receive_sessions EXCEPT ![hash_path(UploadPath)] =
              NewFileState(MaxChunkIndex + 1, MEMORY_THRESHOLD, "valid")]
    /\ pendingDelete' =
          IF /\ receive_sessions[hash_path(UploadPath)] # NoEntry
             /\ Armed(receive_sessions[hash_path(UploadPath)], FALSE)
          THEN pendingDelete \cup {UploadPath} ELSE pendingDelete
    /\ UNCHANGED <<worker, shard, files, disk>>
    /\ UNCHANGED <<startVars, call, sendVars, storeVars, mode, manifest, sessionVars, total_chunks,
                   chunks_processed, progress, coordVars, pc, claimer, winners, last>>

\* a get_mut whose guard is dropped at once: the entry is used without the
\* shard lock
GetMut_NoGuard(w) ==
    /\ Polled(w) # Idle
    /\ task[Polled(w)] = "get_mut"
    /\ shard = Idle
    /\ task' = [task EXCEPT ![Polled(w)] = "store_chunk"]
    /\ UNCHANGED <<worker, shard>>
    /\ UNCHANGED <<startVars, call, sendVars, storeVars, mode, manifest, sessionVars, transferVars, pc,
                   claimer, winners, last>>

\* lines 121-123: get_mut returns a RefMut, the write guard of the shard, which
\* lives until the handler returns; the thread waits while another guard holds
\* the shard
GetMut(w) ==
    /\ Polled(w) # Idle
    /\ task[Polled(w)] = "get_mut"
    /\ shard = Idle
    /\ shard' = Polled(w)
    /\ task' = [task EXCEPT ![Polled(w)] = "store_chunk"]
    /\ UNCHANGED worker
    /\ UNCHANGED <<startVars, call, sendVars, storeVars, mode, manifest, sessionVars, transferVars, pc,
                   claimer, winners, last>>

\* lines 149-152 with storage.rs:98: store_chunk(..).await.  pending = FALSE:
\* the file took the bytes at once; pending = TRUE: write_all has to wait for
\* the file's previous operation, the future is suspended with the guard alive
\* and the worker thread is free again
AwaitStoreChunk(w, pending) ==
    /\ Polled(w) # Idle
    /\ task[Polled(w)] = "store_chunk"
    /\ task' = [task EXCEPT ![Polled(w)] = IF pending THEN "write_all" ELSE "respond"]
    /\ worker' = IF pending THEN [worker EXCEPT ![w] = Idle] ELSE worker
    /\ UNCHANGED shard
    /\ UNCHANGED <<startVars, call, sendVars, storeVars, mode, manifest, sessionVars, transferVars, pc,
                   claimer, winners, last>>

\* the blocking pool finishes the file operation and wakes the future
WriteDone(t) ==
    /\ task[t] = "write_all"
    /\ task' = [task EXCEPT ![t] = "woken"]
    /\ UNCHANGED <<worker, shard>>
    /\ UNCHANGED <<startVars, call, sendVars, storeVars, mode, manifest, sessionVars, transferVars, pc,
                   claimer, winners, last>>

\* lines 154-167: progress, the response, and the drop of the guard
Respond(w) ==
    /\ Polled(w) # Idle
    /\ task[Polled(w)] = "respond"
    /\ task' = [task EXCEPT ![Polled(w)] = "done"]
    /\ shard' = Idle
    /\ worker' = [worker EXCEPT ![w] = Idle]
    /\ UNCHANGED <<startVars, call, sendVars, storeVars, mode, manifest, sessionVars, transferVars, pc,
                   claimer, winners, last>>

\* worker thread w waits for the shard lock inside a synchronous call
Blocked(w) ==
    /\ Polled(w) # Idle
    /\ task[Polled(w)] \in {"contains_key", "insert", "get_mut"}
    /\ shard # Idle

\* the holder of the shard lock is suspended: it runs on no worker thread
HolderSuspended == shard # Idle /\ task[shard] \in {"write_all", "woken"}

NextWorkers ==
    \/ \E t \in Uploads : Arrive(t)
    \/ \E w \in Workers, t \in Uploads : Poll(w, t)
    \/ \E w \in Workers : ContainsKey(w)
    \/ \E w \in Workers : AwaitNewStorage(w)
    \/ \E w \in Workers : Insert(w)
    \/ \E w \in Workers : GetMut(w)
    \/ \E w \in Workers, pending \in BOOLEAN : AwaitStoreChunk(w, pending)
    \/ \E t \in Uploads : WriteDone(t)
    \/ \E w \in Workers : Respond(w)
    \/ RemoveFile(UploadPath)

\* a receive server
InitWorkers == Init /\ mode = "receive"

SpecWorkers == InitWorkers /\ [][NextWorkers]_vars

\* requests arrive, file operations end, a running thread takes its next
\* step, and the scheduler hands every runnable future to a thread that is
\* idle again and again
SpecWorkersLive ==
    /\ SpecWorkers
    /\ \A t \in Uploads : WF_vars(Arrive(t)) /\ WF_vars(WriteDone(t))
    /\ \A t \in Uploads : SF_vars(\E w \in Workers : Poll(w, t))
    /\ \A w \in Workers :
          /\ SF_vars(ContainsKey(w))
          /\ WF_vars(AwaitNewStorage(w))
          /\ SF_vars(Insert(w))
          /\ SF_vars(GetMut(w))
          /\ WF_vars(\E pending \in BOOLEAN : AwaitStoreChunk(w, pending))
          /\ WF_vars(Respond(w))

\* ---------------------------------------------------------------------------
\* ui/tui.rs and run_session: a session that no key and no signal interrupts
\* ---------------------------------------------------------------------------

\* TransferUI::run, lines 49 and 66: the progress value read from the watch
\* channel is at least 100.0 (the value is num / den * 100.0 in f64: infinite
\* for a positive num over 0, NaN for 0 over 0)
ProgressComplete ==
    IF progress[2] = 0 THEN progress[1] > 0 ELSE progress[1] >= progress[2]

\* select!, first arm, when no key is pressed: the TUI loop ended at line 66
SelectTuiProgress ==
    /\ ProgressComplete
    /\ Goto("select", "teardown")
    /\ UNCHANGED <<receive_sessions, sendVars, storeVars, files, pendingDelete, disk, listener,
                   shutdown_init, signal_sent>>

\* a server with its coordinator and the requests of one client, without
\* interrupts
NextUninterrupted ==
    \/ ManifestHandler(Uploader, TOKEN)
    \/ \E f \in FileIndexes, i \in ChunkIndexes : SendHandler(Uploader, TOKEN, f, i, TRUE)
    \/ \E f \in FileIndexes : GetFileHash(Uploader, TOKEN, f, TRUE)
    \/ CompleteDownload(Uploader, TOKEN)
    \/ ReceiveManifest(Uploader, TOKEN, UploadManifest)
    \/ \E path \in RelPaths, i \in ChunkIndexes :
          ReceiveHandler(Uploader, TOKEN, path, i, MaxChunkIndex + 1, MEMORY_THRESHOLD,
                         UploadNonce(i), TRUE)
    \/ \E path \in RelPaths : FinalizeUpload(Uploader, TOKEN, path)
    \/ \E path \in RelPaths : RemoveFile(path)
    \/ CompleteTransfer(Uploader, TOKEN)
    \/ SelectTuiProgress
    \/ Teardown
    \/ Shutdown
    \/ WaitForTransfers
    \/ CleanupSessions
    \/ Exit

SpecUninterrupted == Init /\ [][NextUninterrupted]_vars

\* ------------------------------ server/state.rs: ChunkSendSession (send mode)
\* Option<String>: None, or Some(hash)
NoHash == [set |-> FALSE, hash |-> <<>>]
SomeHash(h) == [set |-> TRUE, hash |-> h]

\* Sha256 is taken as injective: the digest of a hasher is the sequence of the
\* chunks (by index) it was updated with.  compute_file_hash reads the whole
\* file: the chunks 0 .. total-1 in file order
Digest(hasher) == hasher
ComputeFileHash(f) == Digest([k \in 1..CeilDiv(FileSize(f)) |-> k - 1])

\* ChunkSendSession::new
NewSendSession(total) ==
    [hasher |-> <<>>, next_chunk_to_hash |-> 0, buffered_chunks |-> {},
     total_chunks |-> total, finalized_hash |-> NoHash]

\* process_chunk, lines 72-75: the buffered chunks that follow the one just hashed
RECURSIVE HashBuffered(_)
HashBuffered(s) ==
    IF s.next_chunk_to_hash \in s.buffered_chunks
    THEN HashBuffered([s EXCEPT !.hasher = Append(@, s.next_chunk_to_hash),
                                !.next_chunk_to_hash = @ + 1,
                                !.buffered_chunks = @ \ {s.next_chunk_to_hash}])
    ELSE s

\* process_chunk without its buffer: every chunk is hashed as it arrives
ProcessChunk_OnArrival(s, chunk_index) ==
    IF s.finalized_hash.set THEN s
    ELSE LET h == [s EXCEPT !.hasher = Append(@, chunk_index), !.next_chunk_to_hash = @ + 1]
         IN IF h.next_chunk_to_hash = h.total_chunks
            THEN [h EXCEPT !.finalized_hash = SomeHash(Digest(h.hasher))]
            ELSE h

\* process_chunk
ProcessChunk(s, chunk_index) ==
    IF chunk_index = s.next_chunk_to_hash
    THEN LET h == HashBuffered([s EXCEPT !.hasher = Append(@, chunk_index),
                                         !.next_chunk_to_hash = @ + 1])
         IN IF h.next_chunk_to_hash = h.total_chunks
            THEN [h EXCEPT !.finalized_hash = SomeHash(Digest(h.hasher)),
                           !.buffered_chunks = {}]
            ELSE h
    ELSE [s EXCEPT !.buffered_chunks = @ \cup {chunk_index}]

\* ------------------------------------------- transfer/send.rs (send mode)
\* send_handler: the entry of the file is made (lines 78-80) before the file is
\* opened and read (lines 83-106; io_ok: whether that succeeds); the chunk
\* read goes to process_chunk (lines 109-111) and is then encrypted
Send_SendHandler(c, tok, f, i, io_ok) ==
    /\ Serving
    /\ mode = "send"
    /\ \E b \in {IF HasFile(f) THEN ChunkBounds(f, i, build)
                 ELSE [start |-> 0, end |-> 0, err |-> "file_index"] : build \in Builds} :
       \E err \in {IF ~RequireActiveSession(tok, c) THEN "auth"
                   ELSE IF b.err # "" THEN b.err
                   ELSE IF ~io_ok THEN "io"
                   ELSE ""} :
       LET entry == IF send_sessions[f] = NoSend
                    THEN NewSendSession(CeilDiv(FileSize(f)))
                    ELSE send_sessions[f]
           body == IF err = ""
                   THEN EncryptChunkAtPosition(KEY, FileNonce(f), FileRange(f, b.start, b.end),
                                               b.end - b.start, AsU32(i))
                   ELSE NoText
       IN /\ send_sessions' =
                IF err = "" THEN [send_sessions EXCEPT ![f] = ProcessChunk(entry, i)]
                ELSE IF err = "io" THEN [send_sessions EXCEPT ![f] = entry]
                ELSE send_sessions
          /\ arrived' = IF err = "" THEN [arrived EXCEPT ![f] = @ \cup {i}] ELSE arrived
          /\ last' = Outcome("send_chunk", c, tok, err = "" /\ ~body.panic,
                             IF err = "" /\ body.panic THEN "panic" ELSE err)
                       @@ [file |-> f, index |-> i, body |-> body, processed |-> err = ""]
    /\ UNCHANGED <<startVars, call, poolVars, storeVars, mode, manifest, sessionVars, transferVars,
                   pc, claimer, winners>>

\* get_file_hash: the cached hash of the entry (lines 162-168), or else the
\* hash of the file on disk (io_ok: whether it can be read), which is cached
\* in the entry, made if there is none (lines 181-188)
Send_GetFileHash(c, tok, f, io_ok) ==
    /\ Serving
    /\ mode = "send"
    /\ LET cached == send_sessions[f] # NoSend /\ send_sessions[f].finalized_hash.set
           err == IF ~RequireActiveSession(tok, c) THEN "auth"
                  ELSE IF cached THEN ""
                  ELSE IF ~HasFile(f) THEN "file_index"
                  ELSE IF ~io_ok THEN "io"
                  ELSE ""
       IN /\ send_sessions' =
                IF err # "" \/ cached THEN send_sessions
                ELSE [send_sessions EXCEPT ![f] =
                        [(IF @ = NoSend THEN NewSendSession(CeilDiv(FileSize(f))) ELSE @)
                            EXCEPT !.finalized_hash = SomeHash(ComputeFileHash(f))]]
          /\ last' = Outcome("hash", c, tok, err = "", err)
                       @@ [file |-> f,
                           sha256 |-> IF err # "" THEN NoHash
                                      ELSE IF cached THEN send_sessions[f].finalized_hash
                                      ELSE SomeHash(ComputeFileHash(f))]
    /\ UNCHANGED <<startVars, call, poolVars, storeVars, arrived, mode, manifest, sessionVars,
                   transferVars, pc, claimer, winners>>

MaxSendChunks == 3
SendSizes == {0} \cup {(n - 1) * CHUNK_SIZE + 1 : n \in 1..MaxSendChunks}
SendIndexes == 0..MaxSendChunks
\* the first file of the manifest, and an index past the manifest
SendFiles == {0, NumFiles}

\* a send server of transfer/send.rs: one client that fetches the manifest, the
\* chunks of a file in any order and any number of times, and hashes, and
\* completes
NextSendState ==
    \/ ManifestHandler(Downloader, TOKEN)
    \/ \E f \in SendFiles, i \in SendIndexes, io_ok \in BOOLEAN :
          Send_SendHandler(Downloader, TOKEN, f, i, io_ok)
    \/ \E f \in SendFiles, io_ok \in BOOLEAN : Send_GetFileHash(Downloader, TOKEN, f, io_ok)
    \/ CompleteDownload(Downloader, TOKEN)

\* the files sent have up to MaxSendChunks chunks
InitSendState ==
    /\ InitServerOf(SendSizes)
    /\ mode = "send"
    /\ Started
    /\ call = NoCall

SpecSendState == InitSendState /\ [][NextSendState]_vars

\* the same server with its coordinator and the operator's interrupts
NextSendDrain ==
    \/ ManifestHandler(Downloader, TOKEN)
    \/ \E f \in FileIndexes, i \in ChunkIndexes, io_ok \in BOOLEAN :
          Send_SendHandler(Downloader, TOKEN, f, i, io_ok)
    \/ \E f \in FileIndexes, io_ok \in BOOLEAN : Send_GetFileHash(Downloader, TOKEN, f, io_ok)
    \/ CompleteDownload(Downloader, TOKEN)
    \/ Interrupt
    \/ SelectTuiProgress
    \/ SelectSignal
    \/ Teardown
    \/ Shutdown
    \/ WaitForTransfers
    \/ CleanupSessions
    \/ Exit

InitSendDrain == Init /\ mode = "send"

SpecSendDrain == InitSendDrain /\ [][NextSendDrain]_vars

\* the tokio runtime keeps polling the main task (as in SpecShutdownLive)
SpecSendDrainLive == SpecSendDrain /\ SF_vars(Coordinator)

\* ------------------------------ server/runtime.rs: run_session, tunnel.rs
\* run_session, lines 168-218: the QR code of the URL, then the TUI task and
\* the Ctrl+C task are spawned; ok = FALSE: generate_qr failed and `?`
\* (line 176) returns the error
SpawnTui(ok) ==
    /\ StartStep("session", IF ok THEN "select" ELSE "failed")
    /\ UNCHANGED <<elapsed, server_up, probed, url_shown, tunnel_launched, process>>

\* the Ctrl+C task (lines 191-218), alive until it is aborted at line 247: an
\* interrupt cancels root_token; shutdown_init stands for the token here
CtrlC ==
    /\ start_pc \in {"select", "teardown"}
    /\ interrupts < MaxInterrupts
    /\ interrupts' = interrupts + 1
    /\ shutdown_init' = TRUE
    /\ UNCHANGED <<outerVars, mode, manifest, sessionVars, total_chunks, chunks_processed,
                   progress, receive_sessions, files, pendingDelete, disk, main_pc, listener,
                   signal_sent, exited, pc, claimer, winners, last>>

\* select!, lines 221-231: the TUI task ended (tui = "completed"), or it
\* panicked and `?` (line 224) returns the JoinError (tui = "failed"), or
\* shutdown_token was cancelled
RunSelect(tui) ==
    /\ tui = "cancelled" => shutdown_init
    /\ StartStep("select", IF tui = "failed" THEN "failed" ELSE "teardown")
    /\ UNCHANGED <<elapsed, server_up, probed, url_shown, tunnel_launched, process>>

\* CloudflareTunnel::shutdown, called at lines 239-244 when there is a tunnel:
\* the child is killed and waited for
TunnelShutdown ==
    /\ StartStep("teardown", "stopped")
    /\ process' = IF process = "running" THEN "killed" ELSE process
    /\ UNCHANGED <<elapsed, server_up, probed, url_shown, tunnel_launched>>

\* lines 247-253: the Ctrl+C task is aborted, shutdown() drains, run_session
\* and with it start_https / start_tunnel return
RunShutdown ==
    /\ StartStep("stopped", "returned")
    /\ UNCHANGED <<elapsed, server_up, probed, url_shown, tunnel_launched, process>>

\* start_https / start_tunnel have returned, with an error or without
Returned == start_pc \in {"failed", "returned"}

TuiResults == {"completed", "failed", "cancelled"}

\* start-up and session of the runtime, with the operator's interrupts
NextRuntime ==
    \/ \E ok \in BOOLEAN : StartLocalServer(ok)
    \/ ServerUp
    \/ \E d \in ProbeDurations : Probe(d)
    \/ \E ok \in BOOLEAN : StartTunnel(ok)
    \/ ShowUrl
    \/ \E ok \in BOOLEAN : SpawnTui(ok)
    \/ CtrlC
    \/ \E tui \in TuiResults : RunSelect(tui)
    \/ TunnelShutdown
    \/ RunShutdown

SpecRuntime == InitStartup /\ [][NextRuntime]_vars

\* ------------------------------------- src/session.rs: SessionStore calls
\* what the calls of the SessionStore leave alone
storeRest == <<startVars, call, poolVars, sendVars, mode, manifest, sessionVars, transferVars,
               pc, claimer, winners, last>>

\* time passes
Tick(d) ==
    /\ clock + d <= MaxClock
    /\ clock' = clock + d
    /\ UNCHANGED <<sessions, mutex, caller, granted, refused, storeRest>>

\* create_session: under the lock, a fresh uuid token is entered
CreateSession(file_path) ==
    /\ mutex = NoClient
    /\ \E t \in OneTimeTokens :
          /\ sessions[t] = NoSession
          /\ granted[t] = 0
          /\ \A u \in OneTimeTokens : u < t => sessions[u] # NoSession
          /\ sessions' = [sessions EXCEPT ![t] =
                             [file_path |-> file_path, used |-> FALSE, created_at |-> clock]]
    /\ UNCHANGED <<clock, mutex, caller, granted, refused, storeRest>>

\* download_handler, lines 317-324: a request calls validate_and_mark_used
ValidateCall(c, token) ==
    /\ caller[c].at = "idle"
    /\ caller' = [caller EXCEPT ![c] = [at |-> "lock", token |-> token]]
    /\ UNCHANGED <<sessions, clock, mutex, granted, refused, storeRest>>

\* validate_and_mark_used, line 50: self.sessions.lock().await
Lock(c) ==
    /\ caller[c].at = "lock"
    /\ mutex = NoClient
    /\ mutex' = c
    /\ caller' = [caller EXCEPT ![c].at = "locked"]
    /\ UNCHANGED <<sessions, clock, granted, refused, storeRest>>

\* line 53: session.created_at.elapsed() > SESSION_LIFETIME
Expired(session) == clock - session.created_at > SESSION_LIFETIME

\* a session that is handed out without being marked
MarkUsed_Forgotten(session) == session

\* line 59: session.used = true
MarkUsed(session) == [session EXCEPT !.used = TRUE]

\* validate_and_mark_used, lines 51-67, under the lock, and the drop of the
\* guard at the return
ValidateAndMarkUsed(c) ==
    /\ caller[c].at = "locked"
    /\ LET token == caller[c].token
           session == sessions[token]
           found == token \in OneTimeTokens /\ session # NoSession
           some == found /\ ~Expired(session) /\ ~session.used
       IN /\ sessions' = IF ~found THEN sessions
                         ELSE IF Expired(session) THEN [sessions EXCEPT ![token] = NoSession]
                         ELSE IF ~session.used THEN [sessions EXCEPT ![token] = MarkUsed(session)]
                         ELSE sessions
          /\ granted' = IF some THEN [granted EXCEPT ![token] = @ + 1] ELSE granted
          /\ refused' = IF some \/ token \notin OneTimeTokens THEN refused
                        ELSE refused \cup {token}
    /\ caller' = [caller EXCEPT ![c] = NotCalling]
    /\ mutex' = NoClient
    /\ UNCHANGED <<clock, storeRest>>

\* the clock is read in halves of the lifetime
TickSizes == {SESSION_LIFETIME \div 2}
StoredPaths == {"a.bin"}

\* the store of a server, the requests of its clients with any token, and time
NextStore ==
    \/ \E d \in TickSizes : Tick(d)
    \/ \E file_path \in StoredPaths : CreateSession(file_path)
    \/ \E c \in Clients, token \in OneTimeTokens \cup {0} : ValidateCall(c, token)
    \/ \E c \in Clients : Lock(c)
    \/ \E c \in Clients : ValidateAndMarkUsed(c)

\* the store as the server makes it at start (server.rs builds one AppState)
InitStoreOnly == Init /\ mode = "receive"

SpecStore == InitStoreOnly /\ [][NextStore]_vars


\* ======================================================================
\* The claims
\* ======================================================================
AllReturned == \A c \in Clients : pc[c] = "idle"
ClaimingOps == {"claim", "manifest", "receive_manifest"}

\* C1 -- Session linearity: in every state after claim(t, c1) succeeded, no
\* other client c2 has been told `true` by claim(t, c2), and is_active(t, c2)
\* is false for every c2 # c1.
C1_SessionLinearity ==
    claimer # NoClient =>
        \A c2 \in Clients \ {claimer} : c2 \notin winners /\ ~IsActive(TOKEN, c2)

\* C2 -- Client hijack: once a client has claimed the session through the
\* manifest request, a send chunk request of any other client fails with the
\* auth failure and changes neither the session state, the owner nor
\* chunks_processed.
C2_HijackRejected ==
    [][ \A c \in Clients, tok \in Tokens, f \in FileIndexes, i \in ChunkIndexes :
          (SendHandler(c, tok, f, i, TRUE) /\ claimer # NoClient /\ c # claimer)
             => /\ last'.err = "auth"
                /\ UNCHANGED <<active, completed, claimer, chunks_processed>> ]_vars

\* C3 -- claim is idempotent for the owner: a claim (or a manifest request) of
\* the owning client with the session token on an Active session succeeds and
\* leaves the session Active.
C3_ClaimIdempotent ==
    [][ (last'.op \in ClaimingOps /\ last' # last /\ last'.token = TOKEN
            /\ SessionState = "Active" /\ last'.client = claimer)
          => (last'.ok /\ SessionState' = "Active") ]_vars

\* C4 -- the claim transition is atomic: when concurrent claim calls of
\* distinct clients on an Unclaimed session have all returned, exactly one got
\* `true` and the session is bound to that client: it is active for the winner
\* and for nobody else.
C4_AtomicClaim ==
    (AllReturned /\ claimer # NoClient /\ ~completed
       /\ last.op = "claim" /\ last.token = TOKEN /\ last.client # claimer) =>
        /\ winners = {claimer}
        /\ \A c \in Clients : IsActive(TOKEN, c) <=> (c = claimer)

\* C5 -- is_active(token, client_id) is true iff the token is the session
\* token and the state is Active{client_id}.
C5_IsActiveIff ==
    \A tok \in Tokens, c \in Clients :
        IsActive(tok, c) <=> (tok = TOKEN /\ SessionState = "Active" /\ c = claimer)

\* C6 -- complete(token, client_id) succeeds exactly when is_active(token,
\* client_id) holds at the call and then moves the session to Completed; a
\* failed complete leaves the state unchanged.
C6_CompleteRequiresActive ==
    [][ (last'.op = "complete" /\ last' # last)
          => /\ last'.ok <=> (last'.token = TOKEN /\ SessionState = "Active"
                                /\ last'.client = claimer)
             /\ last'.ok => SessionState' = "Completed"
             /\ ~last'.ok => UNCHANGED sessionVars ]_vars

C8_WrongTokenClaim ==
    [][ (last'.op = "claim" /\ last' # last /\ last'.token # TOKEN)
          => /\ ~last'.ok
             /\ UNCHANGED <<active, completed, claimer, winners>>
             /\ SessionState = "Unclaimed" => Claim(TOKEN).ok' ]_vars

C8_Witness ==
    /\ last.op = "claim"
    /\ last.token = WrongToken
    /\ ~last.ok
    /\ SessionState = "Unclaimed"

\* C9 -- the manifest request comes first on the send path: on an Unclaimed
\* session every chunk, hash and complete request is rejected, and a chunk
\* request of client c is taken up (authorised, read and counted; the answer
\* itself may still be lost to a panic of the codec) only after a manifest
\* request of c has succeeded.
C9_ManifestFirst ==
    /\ (last.op \in {"send_chunk", "hash", "complete_download"}
           /\ last.err \in {"", "panic"})
          => claimer # NoClient
    /\ (last.op = "send_chunk" /\ last.err \in {"", "panic"}) => last.client \in winners

\* C10 -- a chunk upload claims the session only as chunk 0 of a file without
\* registry entry; any other upload is accepted only when the session is
\* Active for the uploading client; on an Unclaimed session an upload with
\* index # 0 is rejected and creates neither a registry entry nor a file.
C10_UploadGate ==
    [][ \A c \in Clients, tok \in Tokens, path \in RelPaths, i \in ChunkIndexes :
          ReceiveHandler(c, tok, path, i, MaxChunkIndex + 1, MEMORY_THRESHOLD, UploadNonce(i), TRUE)
             => /\ active' # active => (i = 0 /\ receive_sessions[hash_path(path)] = NoEntry)
                /\ (~(i = 0 /\ receive_sessions[hash_path(path)] = NoEntry) /\ last'.ok)
                      => (SessionState = "Active" /\ c = claimer)
                /\ (SessionState = "Unclaimed" /\ i # 0)
                      => (~last'.ok /\ UNCHANGED <<receive_sessions, files>>) ]_vars

\* the original file of n chunks, as the sequence of its chunks
Original(n) == [k \in 1..n |-> k - 1]

\* C11 -- Order independence: whenever finalize succeeds for a file whose N
\* chunks 0..N-1 were all uploaded, in whatever order, the destination file
\* equals the original (chunk k of the file is chunk k of the original).
C11_OrderIndependence ==
    [][ \A path \in RelPaths :
          (FinalizeUpload(Uploader, TOKEN, path) /\ last'.ok
             /\ receive_sessions[hash_path(path)].chunks
                   = 0..(receive_sessions[hash_path(path)].total_chunks - 1))
          => disk'[path] = Original(receive_sessions[hash_path(path)].total_chunks) ]_vars

\* C12 -- Resume idempotence: an upload of a chunk whose index is already
\* stored for the file answers success with duplicate=true and the unchanged
\* received count, and changes neither the stored indices (nor anything else
\* of the file's registry entry), the destination bytes, nor chunks_processed.
C12_ResumeIdempotence ==
    [][ \A path \in RelPaths, i \in ChunkIndexes :
          (/\ receive_sessions[hash_path(path)] # NoEntry
           /\ i \in receive_sessions[hash_path(path)].chunks
           /\ RequireActiveSession(TOKEN, Uploader))
          => \/ /\ last'.op = "receive_chunk"
                /\ last'.ok
                /\ last'.err = "duplicate"
                /\ last'.received = Cardinality(receive_sessions[hash_path(path)].chunks)
                /\ UNCHANGED <<receive_sessions, disk, files, chunks_processed, progress>>
             \/ \A nonce \in Nonces, authentic \in BOOLEAN, d \in Declared(path) :
                   ~ReceiveHandler(Uploader, TOKEN, path, i, d[1], d[2], nonce, authentic) ]_vars

C12_Witness ==
    /\ last.op = "receive_chunk"
    /\ last.err = "duplicate"
    /\ last.received = 1
    /\ \E path \in RelPaths :
          /\ receive_sessions[hash_path(path)] # NoEntry
          /\ receive_sessions[hash_path(path)].kind = "DirectWrite"
          /\ Len(disk[path]) = 1

\* C13 -- a chunk whose AEAD tag does not verify is rejected without
\* poisoning the file: the upload fails, no bytes are written, the index is
\* not recorded as received, chunks_processed does not move and the file's
\* FileReceiveState stays in the registry, so that the right ciphertext for
\* that index can still be stored.
C13_TagFailureRejected ==
    [][ \A path \in RelPaths, i \in ChunkIndexes, nonce \in Nonces :
        \A d \in Declared(path) :
          (/\ ReceiveHandler(Uploader, TOKEN, path, i, d[1], d[2], nonce, FALSE)
           /\ (receive_sessions[hash_path(path)] = NoEntry
                  \/ ~HasChunk(receive_sessions[hash_path(path)], i)))
          => /\ ~last'.ok
             /\ (receive_sessions'[hash_path(path)] = NoEntry
                    \/ ~HasChunk(receive_sessions'[hash_path(path)], i))
             /\ receive_sessions[hash_path(path)] # NoEntry
                   => receive_sessions'[hash_path(path)] # NoEntry
             /\ Len(disk'[path]) <= Len(disk[path])
             /\ chunks_processed' = chunks_processed ]_vars

C15_FinalizeComplete ==
    [][ \A path \in RelPaths :
          (FinalizeUpload(Uploader, TOKEN, path) /\ last'.ok)
          => /\ receive_sessions[hash_path(path)].chunks
                   = 0..(receive_sessions[hash_path(path)].total_chunks - 1)
             /\ Len(disk'[path]) = CeilDiv(receive_sessions[hash_path(path)].file_size) ]_vars

\* C16 -- a storage's destination file is deleted on drop iff finalize did not
\* succeed: when a storage that has created its destination file is dropped
\* by a failed finalize, the file is handed to the cleanup thread and is
\* eventually removed; a successful finalize schedules no deletion.
C16_DeleteIffNotFinalized ==
    /\ [][ \A path \in RelPaths :
             (/\ FinalizeUpload(Uploader, TOKEN, path)
              /\ receive_sessions[hash_path(path)] # NoEntry
              /\ receive_sessions'[hash_path(path)] = NoEntry)
             => IF last'.ok
                THEN pendingDelete' = pendingDelete
                ELSE (receive_sessions[hash_path(path)].kind = "DirectWrite"
                         \/ last'.err # "incomplete")
                        => path \in pendingDelete' ]_vars
    /\ \A path \in RelPaths : (path \in pendingDelete) ~> (path \notin files)

\* the relative paths that leave the destination root (../../etc/passwd)
TraversalPaths == {p \in RelPaths : \E k \in DOMAIN p : p[k] = ".."}

\* C17 -- a chunk upload whose relativePath fails validate_path is rejected
\* before any file is created and before any registry entry is inserted, and
\* no upload ever leaves a file outside the destination root.
C17_InvalidPathRejected ==
    /\ (last.op = "receive_chunk" /\ last.path \in TraversalPaths) => ~last.ok
    /\ \A path \in TraversalPaths :
          /\ path \notin files
          /\ path \notin pendingDelete
          /\ disk[path] = <<>>
          /\ receive_sessions[hash_path(path)] = NoEntry

C17_Witness ==
    /\ last.op = "receive_chunk"
    /\ last.path \in TraversalPaths
    /\ last.err = "path"
    /\ active
    /\ files = {}

\* C18 -- after the first interrupt the coordinator drains: it leaves the
\* drain loop (and only then clears the registry) only when a sample shows
\* transfer_count = 0 or a second interrupt has set the force flag; while
\* transfers are active and no second interrupt came, it keeps waiting.
C18_DrainWaits ==
    [][ /\ (main_pc = "drain" /\ main_pc' # "drain")
              => (TransferCount = 0 \/ interrupts >= 2)
        /\ (main_pc' = "done" /\ main_pc # "done") => main_pc = "cleanup" ]_vars

\* C19 -- a second interrupt, whenever it arrives after the first (also while
\* the drain loop waits for transfers), forces the exit without waiting for
\* the remaining transfers: once two interrupts were delivered the process
\* ends, whatever the uploads do.
C19_SecondInterruptExits == (interrupts >= 2) ~> exited

\* C20 -- on exit the registry is cleared and every destination file that was
\* not finalized has been deleted, on every exit path: when the process has
\* ended, no FileReceiveState is left and no partial file is on disk.
C20_ExitCleansUp ==
    exited => /\ TransferCount = 0
              /\ pendingDelete \cap files = {}

\* C21 -- Readiness gate ordering: the URL is shown, and in tunnel mode the
\* tunnel process is launched, only after the readiness probe got a 2xx from
\* /health; a start-up whose probe never succeeds ends in failure, and a
\* failed start-up whose probe did not succeed has published no URL and
\* launched no tunnel.
C21_ReadinessGate ==
    /\ []((url_shown \/ tunnel_launched) => probed)
    /\ []((start_pc = "failed" /\ ~probed) => (~url_shown /\ ~tunnel_launched))
    /\ <>(probed \/ start_pc = "failed")

C21_Witness ==
    /\ start_pc = "session"
    /\ server_mode = "tunnel"
    /\ url_shown /\ tunnel_launched
    /\ elapsed >= PROBE_SLEEP_MS

\* C22 -- Authorization failures are indistinguishable: a request to a handler
\* guarded by require_active_session that carries an invalid token, or meets a
\* session that is not Active, or comes from a client other than the one that
\* claimed the session, gets the same response: status 500 with an empty body.
RequireOps == {"send_chunk", "hash", "complete_download", "finalize", "complete_transfer"}
C22_AuthFailuresAlike ==
    [][ (/\ last' # last
         /\ last'.op \in RequireOps
         /\ \/ last'.token # TOKEN
            \/ SessionState # "Active"
            \/ (claimer # NoClient /\ last'.client # claimer))
          => IntoResponse(last'.err) = [status |-> 500, body |-> ""] ]_vars

\* C23 -- No (key, nonce base, counter) triple is used twice: the chunks the
\* server has decrypted for distinct (file, chunk index) pairs were decrypted
\* under distinct 12-byte nonces (the counter is the chunk index, untruncated).
DecryptedChunks ==
    {pi \in RelPaths \X WideIndexes :
        /\ receive_sessions[hash_path(pi[1])] # NoEntry
        /\ receive_sessions[hash_path(pi[1])].kind = "DirectWrite"
        /\ pi[2] \in receive_sessions[hash_path(pi[1])].chunks}
C23_NoNonceReuse ==
    \A a \in DecryptedChunks, b \in DecryptedChunks :
        a # b => StoreNonce(receive_sessions[hash_path(a[1])], a[2])
                    # StoreNonce(receive_sessions[hash_path(b[1])], b[2])

\* C24 -- Send chunk bounds: for a file of size s a chunk request whose
\* chunk_index * CHUNK_SIZE (exact arithmetic) is >= s is rejected and leaves
\* chunks_processed alone; any other is answered with the encryption of
\* exactly the bytes [chunk_index * CHUNK_SIZE, min(that + CHUNK_SIZE, s)), a
\* ciphertext 16 bytes longer than the range.
MinOf(a, b) == IF a < b THEN a ELSE b
C24_Reached ==
    /\ last.op = "send_chunk"
    /\ last.err \notin {"auth", "file_index", "io"}
C24_SendBounds ==
    /\ [](C24_Reached =>
            IF last.index * CHUNK_SIZE >= FileSize(last.file)
            THEN ~last.ok
            ELSE /\ last.ok
                 /\ ~last.body.panic
                 /\ last.body.plain =
                      FileRange(last.file, last.index * CHUNK_SIZE,
                                MinOf(last.index * CHUNK_SIZE + CHUNK_SIZE, FileSize(last.file)))
                 /\ last.body.len =
                      MinOf(last.index * CHUNK_SIZE + CHUNK_SIZE, FileSize(last.file))
                         - last.index * CHUNK_SIZE + 16)
    /\ [][(last' # last /\ last'.op = "send_chunk" /\ ~last'.ok)
             => UNCHANGED chunks_processed]_vars

\* C25 -- A zero-byte file of the client's manifest, for which no chunk was
\* uploaded, can be finalized: the finalize request for it on an Active
\* session succeeds and leaves the file, with size 0, in the destination.
C25_EmptyFileFinalized ==
    [][ \A c \in Clients :
          (RequireActiveSession(TOKEN, c) /\ FinalizeUpload(c, TOKEN, EmptyFile))
             => /\ last'.ok
                /\ EmptyFile \in files'
                /\ disk'[EmptyFile] = <<>> ]_vars

\* C26 -- Codec round-trip and separation: encrypt_chunk_at_position yields a
\* ciphertext for every plaintext and counter; decrypt_chunk_at_position
\* returns the plaintext from it under the same key, nonce base and counter,
\* and fails under another key or another counter.
C26_RoundTrip ==
    /\ (call.fn = "codec" /\ call.stage # "input" /\ call.by = "encrypt_chunk_at_position")
          => ~call.ct.panic
    /\ (call.fn = "codec" /\ call.stage = "opened" /\ call.by = "encrypt_chunk_at_position"
           /\ call.with = "encryption.rs")
          => /\ ~call.out.panic
             /\ IF call.dkey = call.key /\ call.dcounter = call.counter
                THEN ~call.out.err /\ call.out.plain = call.plain
                ELSE call.out.err

\* C27 -- Nonce composition: for every 7-byte nonce base and every u32 counter
\* the codec's Nonce::with_counter returns the 12 bytes base, counter as
\* big-endian u32, 0: the nonce of a BE32 stream encryptor's counter-th
\* non-final message.
C27_NonceComposition ==
    (call.fn = "codec" /\ call.stage # "input" /\ call.by = "encrypt_chunk_at_position")
       => /\ ~call.full_nonce.panic
          /\ call.full_nonce.bytes = call.nonce \o ToBeBytes(call.counter) \o <<0>>
          /\ call.full_nonce.bytes = StreamNonce(call.nonce, call.counter, FALSE)

\* C28 -- validate_path rejects the empty string, every path with a NUL
\* byte, every absolute path and every path with a ".." component, and
\* accepts every other path: the relative paths made of normal and
\* current-directory components (a/b, a/./b, ./file.txt are accepted;
\* ../x, /etc/passwd, a/../../b are rejected).
C28_ValidatePath ==
    (call.fn = "validate_path" /\ call.stage = "done") =>
        LET path == call.path
            n == Len(path)
            parent == \E k \in 1..(n - 1) :
                         /\ path[k] = "." /\ path[k + 1] = "."
                         /\ (k = 1 \/ path[k - 1] = "/")
                         /\ (k + 1 = n \/ path[k + 2] = "/")
            rejected == \/ n = 0
                        \/ \E k \in 1..n : path[k] = NUL
                        \/ path[1] = "/"
                        \/ parent
        IN  /\ (call.result # "") <=> rejected
            /\ path \in AcceptedPaths => call.result = ""
            /\ path \in RejectedPaths => call.result # ""

C28_Witness ==
    /\ call.fn = "validate_path"
    /\ call.stage = "done"
    /\ call.path = <<"a", "/", ".", ".", "/", ".", ".", "/", "b">>
    /\ call.result = "ContainsParentDir"

\* C29 -- Manifest counting: after the manifest of an authorised client, for
\* every list of u64 sizes, the session's total_chunks is the arithmetic sum
\* of ceil(size / CHUNK_SIZE) over the files (an empty file counts 0; sizes
\* 1_048_577 and 0 give 2), with no wrap-around.
C29_ManifestCounting ==
    (call.fn = "receive_manifest" /\ last.op = "receive_manifest" /\ last.err # "auth") =>
        /\ last.ok
        /\ total_chunks = SumChunks(call.sizes)
        /\ call.sizes = <<CHUNK_SIZE + 1, 0>> => total_chunks = 2

\* C30 -- No handler blocks a runtime worker thread: no worker thread waits
\* inside a chunk-upload handler for a registry lock whose holder is
\* suspended, and with a bounded pool of worker threads and concurrent uploads
\* to the same file every handler that started eventually completes.
C30_NoWorkerBlocked ==
    /\ [](\A w \in Workers : ~(Blocked(w) /\ HolderSuspended))
    /\ \A t \in Uploads : (task[t] = "queued") ~> (task[t] = "done")

\* C31 -- Store calls are serialized per file: under any interleaving of
\* concurrent chunk uploads to one file, at most one upload is inside
\* store_chunk (from its call until the handler resumes after it), and that
\* upload holds the entry's guard.
Storing == {t \in Uploads : task[t] \in {"store_chunk", "write_all", "woken"}}

C31_StoreSerialized ==
    /\ Cardinality(Storing) <= 1
    /\ \A t \in Storing : shard = t

C31_Witness ==
    /\ \E t \in Uploads : task[t] = "write_all" /\ shard = t
    /\ \E w \in Workers : Blocked(w) /\ task[Polled(w)] = "get_mut"

\* C32 -- The per-file nonce is needed only on chunk 0: when only the upload
\* of chunk 0 carries the nonce field, every upload of an authorised client
\* for a valid path is accepted and stored, also one whose index is not 0 and
\* which arrives before chunk 0 (the order 2, 0, 3, 1).
C32_NonceOnChunkZero ==
    (last.op = "receive_chunk" /\ last.err \notin {"auth", "path"}) =>
        /\ last.ok
        /\ receive_sessions[hash_path(last.path)] # NoEntry
        /\ ChunkCount(receive_sessions[hash_path(last.path)]) >= 1

\* C33 -- Absent an interrupt, shutdown begins only after a complete request
\* has been accepted: the coordinator leaves the UI wait only in a session
\* that a complete handler has marked completed, so the last stored or served
\* chunk alone never starts shutdown and registry cleanup.
C33_ShutdownAfterComplete ==
    (interrupts = 0 /\ main_pc # "select") => completed

\* C34 -- For any interleaving of concurrent chunk uploads of one file that is
\* not registered yet, exactly one storage is created and inserted: no insert
\* replaces a live entry, and the destination file of a live entry is neither
\* scheduled for deletion by a dropped storage's guard nor deleted.
C34_SingleStorage ==
    /\ [](receive_sessions[hash_path(UploadPath)] # NoEntry
             => (UploadPath \notin pendingDelete /\ UploadPath \in files))
    /\ [][ \A w \in Workers :
              Insert(w) => receive_sessions[hash_path(UploadPath)] = NoEntry ]_vars

\* C35 -- Once finalize has succeeded for a file, no later request changes or
\* deletes the destination file: the request that follows a successful
\* finalize (a chunk re-sent for the same relativePath) leaves the file in
\* place with its content, registers no storage whose guard would delete it
\* and schedules no deletion of it.  (Only a valid path is ever finalized, so the finalized
\* file is the destination file that exists and awaits no deletion.)
C35_FinalizedFileKept ==
    [][ \A path \in RelPaths :
          (/\ last.op = "finalize"
           /\ last.ok
           /\ path \in files
           /\ path \notin pendingDelete)
          => /\ path \in files'
             /\ disk'[path] = disk[path]
             /\ path \notin pendingDelete'
             /\ \/ receive_sessions'[hash_path(path)] = NoEntry
                \/ ~Armed(receive_sessions'[hash_path(path)], FALSE) ]_vars

\* C36 -- chunks_processed never exceeds total_chunks in any reachable state,
\* and the published progress never exceeds 100, whatever requests the
\* claiming client issues (repeated requests for one send chunk, uploads
\* before the manifest, re-uploads after a finalize).
C36_ProcessedWithinTotal ==
    /\ chunks_processed <= total_chunks
    /\ progress[1] <= progress[2]


\* C37 -- Shutdown terminates after a normal completion: once the coordinator
\* has left the UI wait and reached the drain loop with no interrupt recorded
\* (shutdown_init is false, the Ctrl+C task is aborted), the drain loop returns
\* and the process ends.
C37_DrainTerminates ==
    (main_pc = "drain" /\ ~shutdown_init) ~> exited


\* C40 -- Send-side incremental hashing is order independent: whatever the
\* order in which the chunk indices of a file reach process_chunk, repeats
\* included, the hasher has been fed the indices 0 .. next_chunk_to_hash-1,
\* each once and in increasing order; a call of process_chunk sets
\* finalized_hash exactly when every index 0 .. total_chunks-1 has arrived at
\* least once, to the hash of the chunks in file order; and a finalized_hash
\* that is set keeps its value for as long as the entry exists.
AllArrived(f, arr) == \A i \in 0..(send_sessions[f].total_chunks - 1) : i \in arr[f]
C40_HashedInOrder ==
    \A f \in FileIndexes : send_sessions[f] # NoSend =>
       LET s == send_sessions[f] IN
       /\ s.next_chunk_to_hash <= s.total_chunks
       /\ s.hasher = [k \in 1..s.next_chunk_to_hash |-> k - 1]
       /\ (s.total_chunks > 0 /\ AllArrived(f, arrived))
             => s.finalized_hash = SomeHash(ComputeFileHash(f))
C38_TunnelChildKilled ==
    Returned => process # "running"


\* C39 -- A one-time token is single-use under concurrency: for every token,
\* however the validate_and_mark_used calls of the clients interleave, at
\* most one call returns the file path (every call that returns after it
\* gets None), and a call returns the path only for a token that is stored,
\* unused and not past its lifetime.
C39_SingleUse ==
    /\ [](\A t \in OneTimeTokens : granted[t] <= 1)
    /\ [][\A t \in OneTimeTokens :
            granted'[t] > granted[t]
               => /\ sessions[t] # NoSession
                  /\ ~sessions[t].used
                  /\ clock - sessions[t].created_at <= SESSION_LIFETIME
                  /\ granted[t] = 0
         ]_vars

\* a token was asked for more than once: one call got the path, another
\* None, and the session is still stored, marked as used
C39_Witness ==
    \E t \in OneTimeTokens :
       /\ granted[t] = 1
       /\ t \in refused
       /\ sessions[t] # NoSession /\ sessions[t].used
       /\ \A c \in Clients : caller[c] = NotCalling

====
